---- MODULE Spec2Model ----
(***************************************************************************)
(* A model of the keyword validators of jsonschema-rs (required.rs,        *)
(* properties.rs, items.rs, prefix_items.rs, unevaluated_properties.rs),   *)
(* of its command line (jsonschema-cli/src/main.rs) and of the calls of    *)
(* its Ruby binding (jsonschema-rb/src: lib.rs, options.rs, registry.rs).  *)
(*                                                                         *)
(* A JSON value is a record [kind, props, elems]; an object keeps its      *)
(* members as a sequence in the iteration order of serde_json's Map, an    *)
(* array keeps its elements in elems.  A compiled keyword validator is a   *)
(* record naming the keyword, the variant compile chose and its data.      *)
(***************************************************************************)
EXTENDS Integers, Sequences, FiniteSets, TLC

\* ---------------------------------------------------------------- bounds
\* Longest `required` array drawn in the required-only schemas.
MaxRequired == 4
\* Longest `required` array drawn next to `properties`.
MaxPropsRequired == 2
\* Most entries of `properties` that can match a member of the instance.
MaxProps == 2

\* crate::properties::HASHMAP_THRESHOLD ("size threshold (~ 40 entries)").
HASHMAP_THRESHOLD == 40

\* ------------------------------------------------------------ JSON values
Scalar(k) == [kind |-> k, props |-> <<>>, elems |-> <<>>]
Object(ps) == [kind |-> "object", props |-> ps, elems |-> <<>>]
Array(es) == [kind |-> "array", props |-> <<>>, elems |-> es]
Member(n, v) == [name |-> n, value |-> v]

\* Map::len, Map::contains_key, Map::get of an object value.
len(item) == Len(item.props)
contains_key(item, name) == \E i \in 1..Len(item.props) : item.props[i].name = name
get(item, name) ==
    item.props[CHOOSE i \in 1..Len(item.props) : item.props[i].name = name].value

\* All sequences over S of length at most n.
SeqsUpTo(S, n) == UNION {[1..k -> S] : k \in 0..n}
DistinctNames(ps) == \A i, j \in 1..Len(ps) : ps[i].name = ps[j].name => i = j

RECURSIVE Flatten(_)
Flatten(ss) == IF ss = <<>> THEN <<>> ELSE Head(ss) \o Flatten(Tail(ss))

\* ------------------------------------------------------------------ errors
\* ValidationError::required(location, evaluation_path, instance_path, instance, property)
ValidationError_required(location, instance_path, inst, property) ==
    [kind |-> "Required", schema_location |-> location,
     instance_location |-> instance_path, instance |-> inst, payload |-> property]

\* ValidationError::single_type_error(location, evaluation_path, instance_path, instance, type)
ValidationError_single_type_error(location, instance_path, inst, type) ==
    [kind |-> "Type", schema_location |-> location,
     instance_location |-> instance_path, instance |-> inst, payload |-> type]

\* ValidationError::unevaluated_properties(location, instance_path, instance, unevaluated)
ValidationError_unevaluated_properties(location, instance_path, inst, unevaluated) ==
    [kind |-> "UnevaluatedProperties", schema_location |-> location,
     instance_location |-> instance_path, instance |-> inst, payload |-> unevaluated]

\* ValidationError::false_schema(location, evaluation_path, instance_path, instance)
ValidationError_false_schema(location, instance_path, inst) ==
    [kind |-> "FalseSchema", schema_location |-> location,
     instance_location |-> instance_path, instance |-> inst, payload |-> "false"]

\* -------------------------------------------------------------- subschemas
Drafts == {"Draft4", "Draft6", "Draft7", "Draft201909", "Draft202012"}

\* keywords::type_::is_integer: a number literal without a fractional part,
\* or one whose fractional part is zero.
is_integer(v) == v.kind \in {"int", "zfrac"}

\* keywords::legacy::type_draft_4::is_integer: only a literal written as an integer.
type_draft_4_is_integer(v) == v.kind = "int"

\* The `type` keyword of a subschema {"type": T}; "any" stands for the schema
\* `true`, which has no validator, and "false" for the schema `false`.
TypeMatches(type, d, v) ==
    CASE type = "any" -> TRUE
      [] type = "string" -> v.kind = "str"
      [] type = "number" -> v.kind \in {"int", "zfrac", "frac"}
      [] type = "integer" ->
            IF d = "Draft4" THEN type_draft_4_is_integer(v) ELSE is_integer(v)
      [] type = "boolean" -> v.kind = "bool"
      [] type = "null" -> v.kind = "null"
      [] OTHER -> FALSE

\* compiler::compile of {"type": T} at `location`: a SchemaNode with one validator.
SchemaNode(type, location, d) == [type |-> type, location |-> location, draft |-> d]

SchemaNode_is_valid(node, v) == TypeMatches(node.type, node.draft, v)

SchemaNode_iter_errors(node, v, instance_path) ==
    IF SchemaNode_is_valid(node, v) THEN <<>>
    ELSE IF node.type = "false"
    THEN <<ValidationError_false_schema(node.location, instance_path, v)>>
    ELSE <<ValidationError_single_type_error(
               node.location \o <<"type">>, instance_path, v, node.type)>>

\* validate returns the first error iter_errors would yield.
SchemaNode_validate(node, v, instance_path) ==
    LET es == SchemaNode_iter_errors(node, v, instance_path)
    IN IF es = <<>> THEN <<>> ELSE <<Head(es)>>

\* ---------------------------------------------------------------- required
\* A compiled keyword validator.
Validator(kw, variant, names, properties, location) ==
    [kw |-> kw, variant |-> variant, required |-> names,
     properties |-> properties, location |-> location, required_location |-> <<>>]

IsObject(inst) == inst.kind = "object"

\* A variant that names the keyword without the path of its schema.
Missing_KeywordOnly(v, inst, instance_path, name) ==
    ValidationError_required(<<"required">>, instance_path, inst, name)
\* The Required error of the required validators: self.location, the instance path,
\* the object, the missing name.
Missing(v, inst, instance_path, name) ==
    ValidationError_required(v.location, instance_path, inst, name)

\* RequiredValidator (any number of names).
RequiredValidator_is_valid(v, inst) ==
    IF IsObject(inst)
    THEN IF len(inst) < Len(v.required) THEN FALSE
         ELSE \A i \in 1..Len(v.required) : contains_key(inst, v.required[i])
    ELSE TRUE

RequiredValidator_iter_errors(v, inst, instance_path) ==
    IF IsObject(inst)
    THEN LET absent == SelectSeq(v.required, LAMBDA n : ~contains_key(inst, n))
         IN [i \in 1..Len(absent) |-> Missing(v, inst, instance_path, absent[i])]
    ELSE <<>>

RequiredValidator_validate(v, inst, instance_path) ==
    IF IsObject(inst) /\ \E i \in 1..Len(v.required) : ~contains_key(inst, v.required[i])
    THEN LET i == CHOOSE k \in 1..Len(v.required) :
                     /\ ~contains_key(inst, v.required[k])
                     /\ \A j \in 1..(k - 1) : contains_key(inst, v.required[j])
         IN <<Missing(v, inst, instance_path, v.required[i])>>
    ELSE <<>>

\* SingleItemRequiredValidator.
SingleItemRequiredValidator_is_valid(v, inst) ==
    IF IsObject(inst)
    THEN IF len(inst) = 0 THEN FALSE ELSE contains_key(inst, v.required[1])
    ELSE TRUE

SingleItemRequiredValidator_validate(v, inst, instance_path) ==
    IF ~SingleItemRequiredValidator_is_valid(v, inst)
    THEN <<Missing(v, inst, instance_path, v.required[1])>>
    ELSE <<>>

\* Validate::iter_errors as the trait provides it: the error of validate, if any.
Validate_default_iter_errors(validated) == validated

\* Required2Validator.
Required2Validator_is_valid(v, inst) ==
    IF IsObject(inst)
    THEN len(inst) >= 2 /\ contains_key(inst, v.required[1])
                        /\ contains_key(inst, v.required[2])
    ELSE TRUE

Required2Validator_validate(v, inst, instance_path) ==
    IF IsObject(inst)
    THEN IF ~contains_key(inst, v.required[1])
         THEN <<Missing(v, inst, instance_path, v.required[1])>>
         ELSE IF ~contains_key(inst, v.required[2])
         THEN <<Missing(v, inst, instance_path, v.required[2])>>
         ELSE <<>>
    ELSE <<>>

Required2Validator_iter_errors(v, inst, instance_path) ==
    IF IsObject(inst)
    THEN (IF ~contains_key(inst, v.required[1])
          THEN <<Missing(v, inst, instance_path, v.required[1])>> ELSE <<>>)
         \o (IF ~contains_key(inst, v.required[2])
             THEN <<Missing(v, inst, instance_path, v.required[2])>> ELSE <<>>)
    ELSE <<>>

\* Required3Validator.
Required3Validator_is_valid(v, inst) ==
    IF IsObject(inst)
    THEN len(inst) >= 3 /\ contains_key(inst, v.required[1])
                        /\ contains_key(inst, v.required[2])
                        /\ contains_key(inst, v.required[3])
    ELSE TRUE

\* A variant whose early returns look at the third name first.
Required3Validator_validate_ThirdFirst(v, inst, instance_path) ==
    IF IsObject(inst)
    THEN IF ~contains_key(inst, v.required[3])
         THEN <<Missing(v, inst, instance_path, v.required[3])>>
         ELSE IF ~contains_key(inst, v.required[1])
         THEN <<Missing(v, inst, instance_path, v.required[1])>>
         ELSE IF ~contains_key(inst, v.required[2])
         THEN <<Missing(v, inst, instance_path, v.required[2])>>
         ELSE <<>>
    ELSE <<>>
Required3Validator_validate(v, inst, instance_path) ==
    IF IsObject(inst)
    THEN IF ~contains_key(inst, v.required[1])
         THEN <<Missing(v, inst, instance_path, v.required[1])>>
         ELSE IF ~contains_key(inst, v.required[2])
         THEN <<Missing(v, inst, instance_path, v.required[2])>>
         ELSE IF ~contains_key(inst, v.required[3])
         THEN <<Missing(v, inst, instance_path, v.required[3])>>
         ELSE <<>>
    ELSE <<>>

\* A Required3Validator::iter_errors that forgets its third name.
Required3Validator_iter_errors_NoThird(v, inst, instance_path) ==
    Required2Validator_iter_errors(v, inst, instance_path)

Required3Validator_iter_errors(v, inst, instance_path) ==
    IF IsObject(inst)
    THEN (IF ~contains_key(inst, v.required[1])
          THEN <<Missing(v, inst, instance_path, v.required[1])>> ELSE <<>>)
         \o (IF ~contains_key(inst, v.required[2])
             THEN <<Missing(v, inst, instance_path, v.required[2])>> ELSE <<>>)
         \o (IF ~contains_key(inst, v.required[3])
             THEN <<Missing(v, inst, instance_path, v.required[3])>> ELSE <<>>)
    ELSE <<>>

\* required::compile and compile_with_path: the variant chosen for a schema
\* object `parent` whose `required` is an array of strings; no validator when
\* the keyword is absent or left to the fused additionalProperties validator.
required_compile(parent) ==
    IF "required" \notin parent.keys THEN <<>>
    ELSE IF /\ Len(parent.required) = 1
            /\ parent.additionalProperties = "false"
            /\ "properties" \in parent.keys
            /\ "patternProperties" \notin parent.keys
    THEN <<>>
    ELSE LET location == parent.location \o <<"required">>
             variant == CASE Len(parent.required) = 1 -> "SingleItemRequiredValidator"
                          [] Len(parent.required) = 2 -> "Required2Validator"
                          [] Len(parent.required) = 3 -> "Required3Validator"
                          [] OTHER -> "RequiredValidator"
         IN <<Validator("required", variant, parent.required, <<>>, location)>>

\* -------------------------------------------------------------- properties
\* The errors of the properties (name, node) of `properties`, taken in the
\* order of the validator's own list, for the members the instance has.
RECURSIVE PropertiesInSchemaOrder(_, _, _)
PropertiesInSchemaOrder(properties, inst, instance_path) ==
    IF properties = <<>> THEN <<>>
    ELSE LET name == Head(properties).name
             node == Head(properties).node
         IN (IF contains_key(inst, name)
             THEN SchemaNode_iter_errors(node, get(inst, name), instance_path \o <<name>>)
             ELSE <<>>)
            \o PropertiesInSchemaOrder(Tail(properties), inst, instance_path)

\* The node `properties` holds for `name` (AHashMap::get, or the list entry).
HasNode(properties, name) == \E i \in 1..Len(properties) : properties[i].name = name
NodeOf(properties, name) ==
    properties[CHOOSE i \in 1..Len(properties) : properties[i].name = name].node

\* The errors of the members of the instance, taken in the instance's order,
\* for the names `properties` holds.
RECURSIVE PropertiesInInstanceOrder(_, _, _)
PropertiesInInstanceOrder(properties, members, instance_path) ==
    IF members = <<>> THEN <<>>
    ELSE LET name == Head(members).name
         IN (IF HasNode(properties, name)
             THEN SchemaNode_iter_errors(NodeOf(properties, name), Head(members).value,
                                         instance_path \o <<name>>)
             ELSE <<>>)
            \o PropertiesInInstanceOrder(properties, Tail(members), instance_path)

FirstOf(errors) == IF errors = <<>> THEN <<>> ELSE <<Head(errors)>>

PropertiesAllValid(properties, inst) ==
    \A i \in 1..Len(properties) :
        contains_key(inst, properties[i].name)
            => SchemaNode_is_valid(properties[i].node, get(inst, properties[i].name))

\* SmallPropertiesValidator: a linear scan of its own list.
SmallPropertiesValidator_is_valid(v, inst) ==
    IF IsObject(inst) THEN PropertiesAllValid(v.properties, inst) ELSE TRUE

SmallPropertiesValidator_validate(v, inst, instance_path) ==
    IF IsObject(inst)
    THEN FirstOf(PropertiesInSchemaOrder(v.properties, inst, instance_path))
    ELSE <<>>

SmallPropertiesValidator_iter_errors(v, inst, instance_path) ==
    IF IsObject(inst)
    THEN PropertiesInSchemaOrder(v.properties, inst, instance_path)
    ELSE <<>>

\* BigPropertiesValidator: walks the instance and looks each name up.
BigPropertiesValidator_is_valid(v, inst) ==
    IF IsObject(inst)
    THEN \A i \in 1..Len(inst.props) :
            HasNode(v.properties, inst.props[i].name)
                => SchemaNode_is_valid(NodeOf(v.properties, inst.props[i].name),
                                       inst.props[i].value)
    ELSE TRUE

BigPropertiesValidator_validate(v, inst, instance_path) ==
    IF IsObject(inst)
    THEN FirstOf(PropertiesInInstanceOrder(v.properties, inst.props, instance_path))
    ELSE <<>>

BigPropertiesValidator_iter_errors(v, inst, instance_path) ==
    IF IsObject(inst)
    THEN PropertiesInInstanceOrder(v.properties, inst.props, instance_path)
    ELSE <<>>

\* SmallPropertiesWithRequired2Validator: `required` of two names fused in.
SmallPropertiesWithRequired2Validator_is_valid(v, inst) ==
    IF IsObject(inst)
    THEN IF \/ len(inst) < 2
            \/ ~contains_key(inst, v.required[1])
            \/ ~contains_key(inst, v.required[2])
         THEN FALSE
         ELSE PropertiesAllValid(v.properties, inst)
    ELSE TRUE

SmallPropertiesWithRequired2Validator_validate(v, inst, instance_path) ==
    IF IsObject(inst)
    THEN IF ~contains_key(inst, v.required[1])
         THEN <<ValidationError_required(v.required_location, instance_path, inst,
                                         v.required[1])>>
         ELSE IF ~contains_key(inst, v.required[2])
         THEN <<ValidationError_required(v.required_location, instance_path, inst,
                                         v.required[2])>>
         ELSE FirstOf(PropertiesInSchemaOrder(v.properties, inst, instance_path))
    ELSE <<>>

SmallPropertiesWithRequired2Validator_iter_errors(v, inst, instance_path) ==
    IF IsObject(inst)
    THEN (IF ~contains_key(inst, v.required[1])
          THEN <<ValidationError_required(v.required_location, instance_path, inst,
                                          v.required[1])>>
          ELSE <<>>)
         \o (IF ~contains_key(inst, v.required[2])
             THEN <<ValidationError_required(v.required_location, instance_path, inst,
                                             v.required[2])>>
             ELSE <<>>)
         \o PropertiesInSchemaOrder(v.properties, inst, instance_path)
    ELSE <<>>

\* extract_required2: the two names of `required`, when the fused validator applies.
extract_required2(parent) ==
    IF "patternProperties" \in parent.keys THEN <<>>
    ELSE IF "required" \in parent.keys /\ Len(parent.required) = 2
    THEN parent.required
    ELSE <<>>

\* The (name, node) list compiled from the `properties` map.
CompileProperties(parent) ==
    [i \in 1..Len(parent.properties) |->
        [name |-> parent.properties[i].name,
         node |-> SchemaNode(parent.properties[i].type,
                             parent.location \o <<"properties", parent.properties[i].name>>,
                             parent.draft)]]

\* properties::compile: the variant chosen for the schema object `parent`.
\* parent.filler counts the entries of the `properties` map whose names no
\* instance has; they count for the size threshold and never match.
properties_compile(parent) ==
    IF "properties" \notin parent.keys THEN <<>>
    ELSE IF parent.additionalProperties \in {"false", "object"} THEN <<>>
    ELSE IF Len(parent.properties) + parent.filler < HASHMAP_THRESHOLD
    THEN IF extract_required2(parent) # <<>>
         THEN <<[Validator("properties", "SmallPropertiesWithRequired2Validator",
                           extract_required2(parent), CompileProperties(parent),
                           parent.location \o <<"properties">>)
                 EXCEPT !.required_location = parent.location \o <<"required">>]>>
         ELSE <<Validator("properties", "SmallPropertiesValidator", <<>>,
                          CompileProperties(parent), parent.location \o <<"properties">>)>>
    ELSE <<Validator("properties", "BigPropertiesValidator", <<>>,
                     CompileProperties(parent), parent.location \o <<"properties">>)>>

\* -------------------------------------------------------------------- items
\* Value::is_number, Value::is_string, Value::is_boolean, Value::Array.
is_number(v) == v.kind \in {"int", "zfrac", "frac"}
is_string(v) == v.kind = "str"
is_boolean(v) == v.kind = "bool"
IsArray(inst) == inst.kind = "array"

Min(a, b) == IF a < b THEN a ELSE b

\* A subschema as `items` and `prefixItems` hold it: {"type": T} with
\* `others` further (annotation) keywords; T = "false" is the schema `false`.
Subschema(type, others) == [type |-> type, others |-> others]

\* A compiled `items` / `prefixItems` validator.
ItemsValidator(kw, variant, nodes, skip_prefix, location) ==
    [kw |-> kw, variant |-> variant, nodes |-> nodes,
     skip_prefix |-> skip_prefix, location |-> location]

\* A variant that pushes the index counted after the skipped prefix.
ElementErrors_RelativeIndex(node, items, skip, instance_path) ==
    Flatten([k \in 1..(Len(items) - skip) |->
                SchemaNode_iter_errors(node, items[k + skip], instance_path \o <<k - 1>>)])
\* The errors of the elements after the first `skip`, each against `node`,
\* at instance path .../idx.
ElementErrors(node, items, skip, instance_path) ==
    Flatten([k \in 1..(Len(items) - skip) |->
                SchemaNode_iter_errors(node, items[k + skip],
                                       instance_path \o <<k - 1 + skip>>)])

\* The errors of the elements zipped with the nodes of an array of schemas.
ZippedErrors(nodes, items, instance_path) ==
    Flatten([k \in 1..Min(Len(items), Len(nodes)) |->
                SchemaNode_iter_errors(nodes[k], items[k], instance_path \o <<k - 1>>)])

ItemsArrayValidator_is_valid(v, inst) ==
    IsArray(inst) =>
        \A k \in 1..Min(Len(inst.elems), Len(v.nodes)) :
            SchemaNode_is_valid(v.nodes[k], inst.elems[k])

ItemsArrayValidator_validate(v, inst, instance_path) ==
    IF IsArray(inst) THEN FirstOf(ZippedErrors(v.nodes, inst.elems, instance_path))
    ELSE <<>>

ItemsArrayValidator_iter_errors(v, inst, instance_path) ==
    IF IsArray(inst) THEN ZippedErrors(v.nodes, inst.elems, instance_path) ELSE <<>>

ItemsObjectValidator_is_valid(v, inst) ==
    IsArray(inst) =>
        \A k \in 1..Len(inst.elems) : SchemaNode_is_valid(v.nodes[1], inst.elems[k])

ItemsObjectValidator_validate(v, inst, instance_path) ==
    IF IsArray(inst) THEN FirstOf(ElementErrors(v.nodes[1], inst.elems, 0, instance_path))
    ELSE <<>>

ItemsObjectValidator_iter_errors(v, inst, instance_path) ==
    IF IsArray(inst) THEN ElementErrors(v.nodes[1], inst.elems, 0, instance_path)
    ELSE <<>>

ItemsObjectSkipPrefixValidator_is_valid(v, inst) ==
    IsArray(inst) =>
        \A k \in 1..Len(inst.elems) :
            k > v.skip_prefix => SchemaNode_is_valid(v.nodes[1], inst.elems[k])

ItemsObjectSkipPrefixValidator_validate(v, inst, instance_path) ==
    IF IsArray(inst)
    THEN FirstOf(ElementErrors(v.nodes[1], inst.elems, v.skip_prefix, instance_path))
    ELSE <<>>

ItemsObjectSkipPrefixValidator_iter_errors(v, inst, instance_path) ==
    IF IsArray(inst)
    THEN ElementErrors(v.nodes[1], inst.elems, v.skip_prefix, instance_path)
    ELSE <<>>

\* The per-element test each type-specialized validator inlines.
ItemCheck(check, item) ==
    CASE check = "is_number" -> is_number(item)
      [] check = "is_string" -> is_string(item)
      [] check = "is_boolean" -> is_boolean(item)
      [] check = "is_integer" -> is_number(item) /\ is_integer(item)
      [] check = "type_draft_4_is_integer" -> is_number(item) /\ type_draft_4_is_integer(item)

\* The inlined loops of the type-specialized validators: `check` names the
\* per-element test, `type` the JsonType of the error.
TypedItemsAll(check, inst) ==
    IsArray(inst) => \A k \in 1..Len(inst.elems) : ItemCheck(check, inst.elems[k])

TypedItemsErrors(check, type, v, inst, instance_path) ==
    IF IsArray(inst)
    THEN LET bad == SelectSeq([k \in 1..Len(inst.elems) |-> k],
                              LAMBDA k : ~ItemCheck(check, inst.elems[k]))
         IN [j \in 1..Len(bad) |->
                ValidationError_single_type_error(
                    v.location, instance_path \o <<bad[j] - 1>>, inst.elems[bad[j]], type)]
    ELSE <<>>

\* The loop of validate: return at the first element that fails.
TypedItemsFirst(check, type, v, inst, instance_path) ==
    IF IsArray(inst) /\ \E k \in 1..Len(inst.elems) : ~ItemCheck(check, inst.elems[k])
    THEN LET idx == CHOOSE k \in 1..Len(inst.elems) :
                        /\ ~ItemCheck(check, inst.elems[k])
                        /\ \A l \in 1..(k - 1) : ItemCheck(check, inst.elems[l])
         IN <<ValidationError_single_type_error(
                  v.location, instance_path \o <<idx - 1>>, inst.elems[idx], type)>>
    ELSE <<>>

ItemsNumberTypeValidator_is_valid(v, inst) == TypedItemsAll("is_number", inst)
ItemsNumberTypeValidator_validate(v, inst, instance_path) ==
    TypedItemsFirst("is_number", "number", v, inst, instance_path)
ItemsNumberTypeValidator_iter_errors(v, inst, instance_path) ==
    TypedItemsErrors("is_number", "number", v, inst, instance_path)

ItemsStringTypeValidator_is_valid(v, inst) == TypedItemsAll("is_string", inst)
ItemsStringTypeValidator_validate(v, inst, instance_path) ==
    TypedItemsFirst("is_string", "string", v, inst, instance_path)
\* A variant that stops at the first failing element.
ItemsStringTypeValidator_iter_errors_FirstOnly(v, inst, instance_path) ==
    TypedItemsFirst("is_string", "string", v, inst, instance_path)
ItemsStringTypeValidator_iter_errors(v, inst, instance_path) ==
    TypedItemsErrors("is_string", "string", v, inst, instance_path)

ItemsIntegerTypeValidator_is_valid(v, inst) == TypedItemsAll("is_integer", inst)
ItemsIntegerTypeValidator_validate(v, inst, instance_path) ==
    TypedItemsFirst("is_integer", "integer", v, inst, instance_path)
ItemsIntegerTypeValidator_iter_errors(v, inst, instance_path) ==
    TypedItemsErrors("is_integer", "integer", v, inst, instance_path)

ItemsIntegerTypeValidatorDraft4_is_valid(v, inst) == TypedItemsAll("type_draft_4_is_integer", inst)
ItemsIntegerTypeValidatorDraft4_validate(v, inst, instance_path) ==
    TypedItemsFirst("type_draft_4_is_integer", "integer", v, inst, instance_path)
ItemsIntegerTypeValidatorDraft4_iter_errors(v, inst, instance_path) ==
    TypedItemsErrors("type_draft_4_is_integer", "integer", v, inst, instance_path)

ItemsBooleanTypeValidator_is_valid(v, inst) == TypedItemsAll("is_boolean", inst)
ItemsBooleanTypeValidator_validate(v, inst, instance_path) ==
    TypedItemsFirst("is_boolean", "boolean", v, inst, instance_path)
ItemsBooleanTypeValidator_iter_errors(v, inst, instance_path) ==
    TypedItemsErrors("is_boolean", "boolean", v, inst, instance_path)

\* get_simple_type_schema: the type of a schema that is exactly {"type": "<type>"}.
get_simple_type_schema(schema) ==
    IF schema.form = "object" /\ 1 + schema.schemas[1].others = 1
    THEN <<schema.schemas[1].type>>
    ELSE <<>>

\* A variant that ignores the draft.
IntegerItemsVariant_AnyDraft(d) == "ItemsIntegerTypeValidator"
\* items::compile, "integer": Draft 4 has stricter integer semantics.
IntegerItemsVariant(d) ==
    IF d = "Draft4" THEN "ItemsIntegerTypeValidatorDraft4" ELSE "ItemsIntegerTypeValidator"

\* compiler::compile of the subschemas of an array of schemas under `kw`.
CompileSchemas(schemas, location, kw, d) ==
    [k \in 1..Len(schemas) |-> SchemaNode(schemas[k].type, location \o <<kw, k - 1>>, d)]

\* items::compile.
items_compile(parent) ==
    IF "items" \notin parent.keys THEN <<>>
    ELSE LET schema == parent.items
             node == SchemaNode(schema.schemas[1].type, parent.location \o <<"items">>,
                                parent.draft)
             location == parent.location \o <<"items", "type">>
             type_name == get_simple_type_schema(schema)
         IN CASE schema.form = "array" ->
                   <<ItemsValidator("items", "ItemsArrayValidator",
                                    CompileSchemas(schema.schemas, parent.location, "items",
                                                   parent.draft),
                                    0, parent.location \o <<"items">>)>>
              [] schema.form \in {"object", "false"} ->
                   IF "prefixItems" \in parent.keys /\ parent.prefixItems.form = "array"
                   THEN <<ItemsValidator("items", "ItemsObjectSkipPrefixValidator", <<node>>,
                                         Len(parent.prefixItems.schemas),
                                         parent.location \o <<"items">>)>>
                   ELSE IF type_name = <<"number">>
                   THEN <<ItemsValidator("items", "ItemsNumberTypeValidator", <<>>, 0, location)>>
                   ELSE IF type_name = <<"string">>
                   THEN <<ItemsValidator("items", "ItemsStringTypeValidator", <<>>, 0, location)>>
                   ELSE IF type_name = <<"integer">>
                   THEN <<ItemsValidator("items", IntegerItemsVariant(parent.draft),
                                         <<>>, 0, location)>>
                   ELSE IF type_name = <<"boolean">>
                   THEN <<ItemsValidator("items", "ItemsBooleanTypeValidator", <<>>, 0, location)>>
                   ELSE <<ItemsValidator("items", "ItemsObjectValidator", <<node>>, 0,
                                         parent.location \o <<"items">>)>>
              [] OTHER -> <<>>

\* -------------------------------------------------------------- prefixItems
PrefixItemsValidator_is_valid(v, inst) ==
    IsArray(inst) =>
        \A k \in 1..Min(Len(v.nodes), Len(inst.elems)) :
            SchemaNode_is_valid(v.nodes[k], inst.elems[k])

PrefixItemsValidator_validate(v, inst, instance_path) ==
    IF IsArray(inst) THEN FirstOf(ZippedErrors(v.nodes, inst.elems, instance_path))
    ELSE <<>>

PrefixItemsValidator_iter_errors(v, inst, instance_path) ==
    IF IsArray(inst) THEN ZippedErrors(v.nodes, inst.elems, instance_path) ELSE <<>>

\* The keyword table of the draft: `prefixItems` is a keyword of Draft 2020-12.
KeywordSupported(d, kw) == kw = "prefixItems" => d = "Draft202012"

\* prefix_items::compile, for a `prefixItems` that is an array.
prefix_items_compile(parent) ==
    IF "prefixItems" \in parent.keys /\ KeywordSupported(parent.draft, "prefixItems")
    THEN <<ItemsValidator("prefixItems", "PrefixItemsValidator",
                          CompileSchemas(parent.prefixItems.schemas, parent.location,
                                         "prefixItems", parent.draft),
                          0, parent.location \o <<"prefixItems">>)>>
    ELSE <<>>

\* -------------------------------------------------- unevaluatedProperties
RECURSIVE NodeCompile(_)
RECURSIVE Validate_is_valid(_, _)
RECURSIVE PropertiesFilter_new(_, _, _, _)
RECURSIVE mark_evaluated_properties(_, _)

\* compiler::Context as the filters use it: the references being compiled
\* (`seen`), the document the references resolve in, the draft, the location.
Context(seen, root, d, location) ==
    [seen |-> seen, root |-> root, draft |-> d, location |-> location]

\* ctx.lookup(reference): "#" is the document root, "#/$defs/a" its definition;
\* any other pointer leads nowhere and lookup returns Err.
resolves(ctx, reference) == reference \in {"#", "#/$defs/a"}

lookup(ctx, reference) ==
    IF reference = "#" THEN ctx.root ELSE ctx.root.defs[1]

\* ctx.is_circular_reference(reference): the target is being compiled already.
is_circular_reference(ctx, reference) == reference \in ctx.seen

\* ctx.mark_seen(reference).
mark_seen(ctx, reference) == [ctx EXCEPT !.seen = ctx.seen \cup {reference}]

new_at_location(ctx, segments) == [ctx EXCEPT !.location = ctx.location \o segments]

\* LazyReference { resource, .., registry, .., draft, inner: OnceLock::default() }
LazyReference(resource, registry, d) ==
    [resource |-> resource, registry |-> registry, draft |-> d, inner |-> <<>>]

\* compiler::compile of the `true` / `false` / {"type": T} subschema of a keyword.
CompileSubschema(type, ctx) ==
    SchemaNode(IF type = "true" THEN "any" ELSE type, ctx.location, ctx.draft)

\* The schema node of a schema object is valid when each of its keyword
\* validators is.
NodeIsValid(node_validators, inst) ==
    \A i \in 1..Len(node_validators) : Validate_is_valid(node_validators[i], inst)

\* PropertiesFilter::new returns Err: the `?` after ctx.lookup of a `$ref`
\* that does not resolve, or after the nested new of its target.
RECURSIVE PropertiesFilter_new_is_err(_, _, _)
PropertiesFilter_new_is_err(kind, ctx, parent) ==
    /\ "$ref" \in parent.keys
    /\ \/ ~resolves(ctx, parent.ref)
       \/ /\ ~(kind = "DefaultPropertiesFilter" /\ is_circular_reference(ctx, parent.ref))
          /\ lookup(ctx, parent.ref).form = "object"
          /\ PropertiesFilter_new_is_err(
                 kind,
                 IF kind = "DefaultPropertiesFilter" THEN mark_seen(ctx, parent.ref) ELSE ctx,
                 lookup(ctx, parent.ref))

\* PropertiesFilter::new of DefaultPropertiesFilter and Draft2019PropertiesFilter
\* for the schema object `parent`; `next` is the identity the next lazy
\* reference node gets. Yields the filter and the lazy nodes it created.
\* The modelled schemas keep `$ref` out of combinator branches and have no
\* $dynamicRef, $recursiveRef, dependentSchemas or patternProperties.
PropertiesFilter_new(kind, ctx, parent, next) ==
    LET reference == parent.ref
        circular == kind = "DefaultPropertiesFilter" /\ is_circular_reference(ctx, reference)
        ref_ ==
            IF "$ref" \notin parent.keys THEN [filter |-> <<>>, lazies |-> <<>>]
            ELSE IF circular
            THEN [filter |-> <<[kind |-> "Recursive", lazy |-> next, filter |-> <<>>]>>,
                  lazies |-> <<LazyReference(lookup(ctx, reference), ctx.root, ctx.draft)>>]
            ELSE IF lookup(ctx, reference).form # "object"
            THEN [filter |-> <<>>, lazies |-> <<>>]
            ELSE LET inner == PropertiesFilter_new(
                                  kind,
                                  IF kind = "DefaultPropertiesFilter"
                                  THEN mark_seen(ctx, reference) ELSE ctx,
                                  lookup(ctx, reference), next)
                 IN [filter |-> <<[kind |-> "Default", lazy |-> 0,
                                   filter |-> <<inner.filter>>]>>,
                     lazies |-> inner.lazies]
        CombinatorFilter_new(key, subschemas) ==
            IF key \in parent.keys
            THEN LET objects == SelectSeq([k \in 1..Len(subschemas) |-> k],
                                          LAMBDA k : subschemas[k].form = "object")
                 IN <<[j \in 1..Len(objects) |->
                         [node |-> NodeCompile(subschemas[objects[j]]),
                          filter |-> PropertiesFilter_new(
                                         kind, new_at_location(ctx, <<key, objects[j] - 1>>),
                                         subschemas[objects[j]], next).filter]]>>
            ELSE <<>>
        Nested(key, subschema) ==
            IF key \in parent.keys /\ subschema[1].form = "object"
            THEN <<PropertiesFilter_new(kind, new_at_location(ctx, <<key>>),
                                        subschema[1], next).filter>>
            ELSE <<>>
        conditional ==
            IF "if" \in parent.keys /\ parent.if_[1].form = "object"
            THEN <<[condition |-> NodeCompile(parent.if_[1]),
                    if_ |-> Nested("if", parent.if_)[1],
                    then_ |-> Nested("then", parent.then_),
                    else_ |-> Nested("else", parent.else_)]>>
            ELSE <<>>
    IN [filter |->
          [kind |-> kind,
           unevaluated |->
               IF "unevaluatedProperties" \in parent.keys
               THEN <<CompileSubschema(parent.unevaluatedProperties,
                                       new_at_location(ctx, <<"unevaluatedProperties">>))>>
               ELSE <<>>,
           additional |->
               IF "additionalProperties" \in parent.keys
               THEN <<CompileSubschema(IF parent.additionalProperties = "false"
                                       THEN "false" ELSE parent.additionalType,
                                       new_at_location(ctx, <<"additionalProperties">>))>>
               ELSE <<>>,
           properties |->
               IF "properties" \in parent.keys
               THEN CompileProperties([parent EXCEPT !.location = ctx.location,
                                                     !.draft = ctx.draft])
               ELSE <<>>,
           ref_ |-> ref_.filter,
           conditional |-> conditional,
           all_of |-> CombinatorFilter_new("allOf", parent.allOf),
           any_of |-> CombinatorFilter_new("anyOf", parent.anyOf),
           one_of |-> CombinatorFilter_new("oneOf", parent.oneOf)],
        lazies |-> ref_.lazies]

\* PropertiesFilter::is_valid: the value is valid against the
\* unevaluatedProperties subschema.
PropertiesFilter_is_valid(f, value) ==
    f.unevaluated # <<>> /\ SchemaNode_is_valid(f.unevaluated[1], value)

\* The loop of mark_evaluated_properties over the properties of the object
\* (the `continue`s skip only further inserts of the same property).
MarkOwnProperties(f, inst) ==
    IF IsObject(inst)
    THEN {inst.props[i].name : i \in
            {j \in 1..Len(inst.props) :
                LET property == inst.props[j].name
                    value == inst.props[j].value
                IN \/ \E k \in 1..Len(f.properties) :
                          /\ property = f.properties[k].name
                          /\ SchemaNode_is_valid(f.properties[k].node, value)
                   \/ f.additional # <<>> /\ SchemaNode_is_valid(f.additional[1], value)
                   \/ f.unevaluated # <<>> /\ SchemaNode_is_valid(f.unevaluated[1], value)}}
    ELSE {}

\* CombinatorFilter::mark_evaluated_properties: every subschema's filter marks.
CombinatorFilter_mark_evaluated_properties(subschemas, inst) ==
    UNION {mark_evaluated_properties(subschemas[k].filter, inst) :
              k \in 1..Len(subschemas)}

\* ConditionalFilter::mark_evaluated_properties.
ConditionalFilter_mark_evaluated_properties(c, inst) ==
    IF NodeIsValid(c.condition, inst)
    THEN mark_evaluated_properties(c.if_, inst)
            \cup (IF c.then_ # <<>> THEN mark_evaluated_properties(c.then_[1], inst) ELSE {})
    ELSE IF c.else_ # <<>> THEN mark_evaluated_properties(c.else_[1], inst)
    ELSE {}

\* The oneOf step of mark_evaluated_properties: with exactly one valid
\* subschema among those the filter holds, the filter of that one marks.
OneOfMarks(subschemas, inst) ==
    LET result == {k \in 1..Len(subschemas) : NodeIsValid(subschemas[k].node, inst)}
    IN IF Cardinality(result) = 1
       THEN mark_evaluated_properties(subschemas[CHOOSE k \in result : TRUE].filter, inst)
       ELSE {}

\* The part of mark_evaluated_properties after the references: the object's
\* own properties, then if/then/else, allOf, anyOf and oneOf.
MarkAfterReferences(f, inst) ==
    LET valid(subschemas) == {k \in 1..Len(subschemas) :
                                 NodeIsValid(subschemas[k].node, inst)}
        conditional ==
            IF f.conditional # <<>>
            THEN ConditionalFilter_mark_evaluated_properties(f.conditional[1], inst) ELSE {}
        all_of ==
            IF f.all_of # <<>> /\ valid(f.all_of[1]) = 1..Len(f.all_of[1])
            THEN CombinatorFilter_mark_evaluated_properties(f.all_of[1], inst) ELSE {}
        any_of ==
            IF f.any_of # <<>> /\ valid(f.any_of[1]) # {}
            THEN CombinatorFilter_mark_evaluated_properties(f.any_of[1], inst) ELSE {}
        one_of == IF f.one_of # <<>> THEN OneOfMarks(f.one_of[1], inst) ELSE {}
    IN MarkOwnProperties(f, inst) \cup conditional \cup all_of \cup any_of \cup one_of

\* mark_evaluated_properties of a filter whose references are all compiled in
\* place (ReferenceFilter::Default); a lazy reference is followed step by step.
mark_evaluated_properties(f, inst) ==
    (IF f.ref_ # <<>> /\ f.ref_[1].kind = "Default"
     THEN mark_evaluated_properties(f.ref_[1].filter[1], inst) ELSE {})
        \cup MarkAfterReferences(f, inst)

\* The properties validate collects: not marked evaluated and not valid
\* against the unevaluatedProperties subschema, in the object's order.
Unevaluated(v, inst, evaluated) ==
    LET rejected == SelectSeq(inst.props,
                        LAMBDA p : /\ p.name \notin evaluated
                                   /\ ~PropertiesFilter_is_valid(v.filter, p.value))
    IN [i \in 1..Len(rejected) |-> rejected[i].name]

\* A variant that reports only the first unevaluated property.
ValidateWith_FirstOnly(v, inst, instance_path, evaluated) ==
    LET unevaluated == Unevaluated(v, inst, evaluated)
    IN IF unevaluated # <<>>
       THEN <<ValidationError_unevaluated_properties(
                  v.location, instance_path, inst, <<Head(unevaluated)>>)>>
       ELSE <<>>
\* UnevaluatedPropertiesValidator::validate once the filter has marked.
ValidateWith(v, inst, instance_path, evaluated) ==
    LET unevaluated == Unevaluated(v, inst, evaluated)
    IN IF unevaluated # <<>>
       THEN <<ValidationError_unevaluated_properties(
                  v.location, instance_path, inst, unevaluated)>>
       ELSE <<>>

UnevaluatedPropertiesValidator_validate(v, inst, instance_path) ==
    IF IsObject(inst)
    THEN ValidateWith(v, inst, instance_path, mark_evaluated_properties(v.filter, inst))
    ELSE <<>>

UnevaluatedPropertiesValidator_is_valid(v, inst) ==
    IsObject(inst) =>
        LET evaluated == mark_evaluated_properties(v.filter, inst)
        IN \A i \in 1..Len(inst.props) :
               ~(/\ inst.props[i].name \notin evaluated
                 /\ ~PropertiesFilter_is_valid(v.filter, inst.props[i].value))

\* The compiler's context when it reaches `unevaluatedProperties` of the
\* document root: parent.seen holds the references marked while the keywords
\* before it were compiled.
CompilerContext(parent) == Context(parent.seen, parent, parent.draft, parent.location)

\* unevaluated_properties::compile with the compiler's context `ctx`: the
\* validators (none for `true`) and the lazy reference nodes of its filter,
\* or the error of the filter's construction.
unevaluated_properties_compile(ctx, parent) ==
    IF "unevaluatedProperties" \notin parent.keys \/ parent.unevaluatedProperties = "true"
    THEN [validators |-> <<>>, lazies |-> <<>>, error |-> FALSE]
    ELSE LET kind == IF ctx.draft = "Draft201909" THEN "Draft2019PropertiesFilter"
                     ELSE "DefaultPropertiesFilter"
             made == PropertiesFilter_new(kind, ctx, parent, 1)
         IN IF PropertiesFilter_new_is_err(kind, ctx, parent)
            THEN [validators |-> <<>>, lazies |-> <<>>, error |-> TRUE]
            ELSE [validators |->
                     <<[kw |-> "unevaluatedProperties",
                        variant |-> "UnevaluatedPropertiesValidator",
                        filter |-> made.filter,
                        location |-> ctx.location \o <<"unevaluatedProperties">>]>>,
                  lazies |-> made.lazies, error |-> FALSE]

\* ------------------------------------------------------- the schema node
\* Validate::is_valid / validate / iter_errors of a compiled keyword validator.
Validate_is_valid(v, inst) ==
    CASE v.variant = "RequiredValidator" -> RequiredValidator_is_valid(v, inst)
      [] v.variant = "SingleItemRequiredValidator" ->
            SingleItemRequiredValidator_is_valid(v, inst)
      [] v.variant = "Required2Validator" -> Required2Validator_is_valid(v, inst)
      [] v.variant = "Required3Validator" -> Required3Validator_is_valid(v, inst)
      [] v.variant = "SmallPropertiesValidator" ->
            SmallPropertiesValidator_is_valid(v, inst)
      [] v.variant = "BigPropertiesValidator" -> BigPropertiesValidator_is_valid(v, inst)
      [] v.variant = "SmallPropertiesWithRequired2Validator" ->
            SmallPropertiesWithRequired2Validator_is_valid(v, inst)
      [] v.variant = "ItemsArrayValidator" ->
            ItemsArrayValidator_is_valid(v, inst)
      [] v.variant = "ItemsObjectValidator" ->
            ItemsObjectValidator_is_valid(v, inst)
      [] v.variant = "ItemsObjectSkipPrefixValidator" ->
            ItemsObjectSkipPrefixValidator_is_valid(v, inst)
      [] v.variant = "ItemsNumberTypeValidator" ->
            ItemsNumberTypeValidator_is_valid(v, inst)
      [] v.variant = "ItemsStringTypeValidator" ->
            ItemsStringTypeValidator_is_valid(v, inst)
      [] v.variant = "ItemsIntegerTypeValidator" ->
            ItemsIntegerTypeValidator_is_valid(v, inst)
      [] v.variant = "ItemsIntegerTypeValidatorDraft4" ->
            ItemsIntegerTypeValidatorDraft4_is_valid(v, inst)
      [] v.variant = "ItemsBooleanTypeValidator" ->
            ItemsBooleanTypeValidator_is_valid(v, inst)
      [] v.variant = "PrefixItemsValidator" ->
            PrefixItemsValidator_is_valid(v, inst)
      [] v.variant = "UnevaluatedPropertiesValidator" ->
            UnevaluatedPropertiesValidator_is_valid(v, inst)

Validate_validate(v, inst, instance_path) ==
    CASE v.variant = "RequiredValidator" ->
            RequiredValidator_validate(v, inst, instance_path)
      [] v.variant = "SingleItemRequiredValidator" ->
            SingleItemRequiredValidator_validate(v, inst, instance_path)
      [] v.variant = "Required2Validator" ->
            Required2Validator_validate(v, inst, instance_path)
      [] v.variant = "Required3Validator" ->
            Required3Validator_validate(v, inst, instance_path)
      [] v.variant = "SmallPropertiesValidator" ->
            SmallPropertiesValidator_validate(v, inst, instance_path)
      [] v.variant = "BigPropertiesValidator" ->
            BigPropertiesValidator_validate(v, inst, instance_path)
      [] v.variant = "SmallPropertiesWithRequired2Validator" ->
            SmallPropertiesWithRequired2Validator_validate(v, inst, instance_path)
      [] v.variant = "ItemsArrayValidator" ->
            ItemsArrayValidator_validate(v, inst, instance_path)
      [] v.variant = "ItemsObjectValidator" ->
            ItemsObjectValidator_validate(v, inst, instance_path)
      [] v.variant = "ItemsObjectSkipPrefixValidator" ->
            ItemsObjectSkipPrefixValidator_validate(v, inst, instance_path)
      [] v.variant = "ItemsNumberTypeValidator" ->
            ItemsNumberTypeValidator_validate(v, inst, instance_path)
      [] v.variant = "ItemsStringTypeValidator" ->
            ItemsStringTypeValidator_validate(v, inst, instance_path)
      [] v.variant = "ItemsIntegerTypeValidator" ->
            ItemsIntegerTypeValidator_validate(v, inst, instance_path)
      [] v.variant = "ItemsIntegerTypeValidatorDraft4" ->
            ItemsIntegerTypeValidatorDraft4_validate(v, inst, instance_path)
      [] v.variant = "ItemsBooleanTypeValidator" ->
            ItemsBooleanTypeValidator_validate(v, inst, instance_path)
      [] v.variant = "PrefixItemsValidator" ->
            PrefixItemsValidator_validate(v, inst, instance_path)
      [] v.variant = "UnevaluatedPropertiesValidator" ->
            UnevaluatedPropertiesValidator_validate(v, inst, instance_path)

Validate_iter_errors(v, inst, instance_path) ==
    CASE v.variant = "RequiredValidator" ->
            RequiredValidator_iter_errors(v, inst, instance_path)
      [] v.variant = "SingleItemRequiredValidator" ->
            Validate_default_iter_errors(
                SingleItemRequiredValidator_validate(v, inst, instance_path))
      [] v.variant = "Required2Validator" ->
            Required2Validator_iter_errors(v, inst, instance_path)
      [] v.variant = "Required3Validator" ->
            Required3Validator_iter_errors(v, inst, instance_path)
      [] v.variant = "SmallPropertiesValidator" ->
            SmallPropertiesValidator_iter_errors(v, inst, instance_path)
      [] v.variant = "BigPropertiesValidator" ->
            BigPropertiesValidator_iter_errors(v, inst, instance_path)
      [] v.variant = "SmallPropertiesWithRequired2Validator" ->
            SmallPropertiesWithRequired2Validator_iter_errors(v, inst, instance_path)
      [] v.variant = "ItemsArrayValidator" ->
            ItemsArrayValidator_iter_errors(v, inst, instance_path)
      [] v.variant = "ItemsObjectValidator" ->
            ItemsObjectValidator_iter_errors(v, inst, instance_path)
      [] v.variant = "ItemsObjectSkipPrefixValidator" ->
            ItemsObjectSkipPrefixValidator_iter_errors(v, inst, instance_path)
      [] v.variant = "ItemsNumberTypeValidator" ->
            ItemsNumberTypeValidator_iter_errors(v, inst, instance_path)
      [] v.variant = "ItemsStringTypeValidator" ->
            ItemsStringTypeValidator_iter_errors(v, inst, instance_path)
      [] v.variant = "ItemsIntegerTypeValidator" ->
            ItemsIntegerTypeValidator_iter_errors(v, inst, instance_path)
      [] v.variant = "ItemsIntegerTypeValidatorDraft4" ->
            ItemsIntegerTypeValidatorDraft4_iter_errors(v, inst, instance_path)
      [] v.variant = "ItemsBooleanTypeValidator" ->
            ItemsBooleanTypeValidator_iter_errors(v, inst, instance_path)
      [] v.variant = "PrefixItemsValidator" ->
            PrefixItemsValidator_iter_errors(v, inst, instance_path)
      [] v.variant = "UnevaluatedPropertiesValidator" ->
            Validate_default_iter_errors(
                UnevaluatedPropertiesValidator_validate(v, inst, instance_path))

\* ---------------------------------------------------------------- evaluate
\* EvaluationResult: valid_empty, invalid_empty(errors), from_children (valid
\* when every child node is) and annotate.
EvaluationResult_valid_empty ==
    [valid |-> TRUE, errors |-> <<>>, children |-> <<>>, annotations |-> <<>>]

EvaluationResult_invalid_empty(errors) ==
    [valid |-> FALSE, errors |-> errors, children |-> <<>>, annotations |-> <<>>]

EvaluationResult_from_children(children) ==
    [valid |-> \A k \in 1..Len(children) : children[k].valid,
     errors |-> <<>>, children |-> children, annotations |-> <<>>]

annotate(result, value) == [result EXCEPT !.annotations = <<value>>]

\* SchemaNode::evaluate_instance: the result node of a compiled subschema for
\* the value at `instance_path`, with the errors of its keywords embedded.
SchemaNode_evaluate_instance(node, v, instance_path) ==
    [instance_location |-> instance_path, schema_location |-> node.location,
     valid |-> SchemaNode_is_valid(node, v),
     errors |-> SchemaNode_iter_errors(node, v, instance_path)]

\* Validate::evaluate as the trait provides it: the errors of iter_errors
\* embedded in an invalid result, a valid result when there are none.
Validate_default_evaluate(errors) ==
    IF errors = <<>> THEN EvaluationResult_valid_empty
    ELSE EvaluationResult_invalid_empty(errors)

SmallPropertiesValidator_evaluate(v, inst, instance_path) ==
    IF IsObject(inst)
    THEN LET matched == SelectSeq(v.properties, LAMBDA p : contains_key(inst, p.name))
         IN annotate(
                EvaluationResult_from_children(
                    [k \in 1..Len(matched) |->
                        SchemaNode_evaluate_instance(matched[k].node,
                                                     get(inst, matched[k].name),
                                                     instance_path \o <<matched[k].name>>)]),
                [k \in 1..Len(matched) |-> matched[k].name])
    ELSE EvaluationResult_valid_empty

BigPropertiesValidator_evaluate(v, inst, instance_path) ==
    IF IsObject(inst)
    THEN LET matched == SelectSeq(inst.props, LAMBDA m : HasNode(v.properties, m.name))
         IN annotate(
                EvaluationResult_from_children(
                    [k \in 1..Len(matched) |->
                        SchemaNode_evaluate_instance(NodeOf(v.properties, matched[k].name),
                                                     matched[k].value,
                                                     instance_path \o <<matched[k].name>>)]),
                [k \in 1..Len(matched) |-> matched[k].name])
    ELSE EvaluationResult_valid_empty

\* SmallPropertiesWithRequired2Validator::evaluate: required is checked first.
SmallPropertiesWithRequired2Validator_evaluate(v, inst, instance_path) ==
    IF IsObject(inst)
    THEN IF ~contains_key(inst, v.required[1]) \/ ~contains_key(inst, v.required[2])
         THEN EvaluationResult_invalid_empty(<<>>)
         ELSE SmallPropertiesValidator_evaluate(v, inst, instance_path)
    ELSE EvaluationResult_valid_empty

\* The result nodes of the elements zipped with the nodes of an array of schemas.
ZippedChildren(nodes, items, instance_path) ==
    [k \in 1..Min(Len(items), Len(nodes)) |->
        SchemaNode_evaluate_instance(nodes[k], items[k], instance_path \o <<k - 1>>)]

ItemsArrayValidator_evaluate(v, inst, instance_path) ==
    IF IsArray(inst)
    THEN EvaluationResult_from_children(ZippedChildren(v.nodes, inst.elems, instance_path))
    ELSE EvaluationResult_valid_empty

\* A variant that starts at the first element whatever the prefix.
ElementChildren_FromStart(node, items, skip, instance_path) ==
    [k \in 1..Len(items) |->
        SchemaNode_evaluate_instance(node, items[k], instance_path \o <<k - 1>>)]
\* The result nodes of the elements after the first `skip`, each against
\* `node`, at instance path .../idx (enumerate, then skip).
ElementChildren(node, items, skip, instance_path) ==
    [k \in 1..(IF Len(items) > skip THEN Len(items) - skip ELSE 0) |->
        SchemaNode_evaluate_instance(node, items[k + skip],
                                     instance_path \o <<k - 1 + skip>>)]

ItemsObjectValidator_evaluate(v, inst, instance_path) ==
    IF IsArray(inst)
    THEN annotate(
             EvaluationResult_from_children(
                 ElementChildren(v.nodes[1], inst.elems, 0, instance_path)),
             inst.elems # <<>>)
    ELSE EvaluationResult_valid_empty

ItemsObjectSkipPrefixValidator_evaluate(v, inst, instance_path) ==
    IF IsArray(inst)
    THEN annotate(
             EvaluationResult_from_children(
                 ElementChildren(v.nodes[1], inst.elems, v.skip_prefix, instance_path)),
             Len(inst.elems) > v.skip_prefix)
    ELSE EvaluationResult_valid_empty

\* evaluate of the type-specialized validators: one ErrorDescription("type",
\* "<item> at index <idx> is not of type <type>") per failing element.
TypedItemsEvaluate(check, type, inst) ==
    IF IsArray(inst)
    THEN LET bad == SelectSeq([k \in 1..Len(inst.elems) |-> k],
                              LAMBDA k : ~ItemCheck(check, inst.elems[k]))
             errors == [j \in 1..Len(bad) |->
                           [keyword |-> "type", item |-> inst.elems[bad[j]],
                            index |-> bad[j] - 1, type |-> type]]
             schema_was_applied == inst.elems # <<>>
         IN IF errors = <<>>
            THEN annotate(EvaluationResult_valid_empty, schema_was_applied)
            ELSE annotate(EvaluationResult_invalid_empty(errors), schema_was_applied)
    ELSE EvaluationResult_valid_empty

PrefixItemsValidator_evaluate(v, inst, instance_path) ==
    IF IsArray(inst) /\ inst.elems # <<>>
    THEN LET children == ZippedChildren(v.nodes, inst.elems, instance_path)
             max_index_applied == IF children = <<>> THEN 0 ELSE Len(children) - 1
         IN IF Len(children) = Len(inst.elems)
            THEN annotate(EvaluationResult_from_children(children), TRUE)
            ELSE annotate(EvaluationResult_from_children(children), max_index_applied)
    ELSE EvaluationResult_valid_empty

\* Validate::evaluate of a compiled keyword validator.
Validate_evaluate(v, inst, instance_path) ==
    CASE v.kw = "required" ->
            Validate_default_evaluate(Validate_iter_errors(v, inst, instance_path))
      [] v.variant = "SmallPropertiesValidator" ->
            SmallPropertiesValidator_evaluate(v, inst, instance_path)
      [] v.variant = "BigPropertiesValidator" ->
            BigPropertiesValidator_evaluate(v, inst, instance_path)
      [] v.variant = "SmallPropertiesWithRequired2Validator" ->
            SmallPropertiesWithRequired2Validator_evaluate(v, inst, instance_path)
      [] v.variant = "ItemsArrayValidator" ->
            ItemsArrayValidator_evaluate(v, inst, instance_path)
      [] v.variant = "ItemsObjectValidator" ->
            ItemsObjectValidator_evaluate(v, inst, instance_path)
      [] v.variant = "ItemsObjectSkipPrefixValidator" ->
            ItemsObjectSkipPrefixValidator_evaluate(v, inst, instance_path)
      [] v.variant = "ItemsNumberTypeValidator" ->
            TypedItemsEvaluate("is_number", "number", inst)
      [] v.variant = "ItemsStringTypeValidator" ->
            TypedItemsEvaluate("is_string", "string", inst)
      [] v.variant = "ItemsIntegerTypeValidator" ->
            TypedItemsEvaluate("is_integer", "integer", inst)
      [] v.variant = "ItemsIntegerTypeValidatorDraft4" ->
            TypedItemsEvaluate("type_draft_4_is_integer", "integer", inst)
      [] v.variant = "ItemsBooleanTypeValidator" ->
            TypedItemsEvaluate("is_boolean", "boolean", inst)
      [] v.variant = "PrefixItemsValidator" ->
            PrefixItemsValidator_evaluate(v, inst, instance_path)
      [] v.variant = "UnevaluatedPropertiesValidator" ->
            Validate_default_evaluate(Validate_iter_errors(v, inst, instance_path))

\* The keyword validators of the schema object, in the compiler's keyword
\* order: required before properties; then the array keywords.
NodeCompile(p) ==
    required_compile(p) \o properties_compile(p) \o prefix_items_compile(p) \o items_compile(p)
        \o unevaluated_properties_compile(CompilerContext(p), p).validators

\* ---------------------------------------------------------------- the CLI
\* Output::as_str: the names of the output modes.
Outputs == {"text", "flag", "list", "hierarchical"}
Structured == {"flag", "list", "hierarchical"}

\* A file on disk: its extension, whether File::open succeeds, what its text
\* is ("json": a JSON document, which is also a YAML document; "yaml": a YAML
\* document that is not JSON; "garbage": neither), and the verdict of the
\* validator on the value it holds.
File(ext, opens, text, valid) == [ext |-> ext, opens |-> opens, text |-> text, valid |-> valid]

\* The outcome of reading a file and the parser that was given its text.
ReadResult(status, parser) == [status |-> status, parser |-> parser]

\* read_json: File::open(path)?, then serde_json::from_reader.
read_json(file) ==
    IF ~file.opens THEN ReadResult("io_error", "none")
    ELSE IF file.text = "json" THEN ReadResult("ok", "json")
    ELSE ReadResult("parse_error", "json")

\* read_json_or_yaml: serde_saphyr for the extensions yaml and yml, serde_json
\* for every other path.
read_json_or_yaml(file) ==
    IF ~file.opens THEN ReadResult("io_error", "none")
    ELSE IF file.ext = "yaml" \/ file.ext = "yml"
    THEN IF file.text \in {"json", "yaml"} THEN ReadResult("ok", "yaml")
         ELSE ReadResult("parse_error", "yaml")
    ELSE IF file.text = "json" THEN ReadResult("ok", "json")
    ELSE ReadResult("parse_error", "json")

\* One println!: a structured record ("record": `output`, `schema`, `instance`
\* when given, payload.valid) or a line of text ("VALID", "INVALID" with its
\* numbered errors, "Schema is valid", "Schema is invalid", "Error").
Line(kind, output, inst, valid) ==
    [kind |-> kind, output |-> output, instance |-> inst, valid |-> valid,
     keys |-> IF kind = "record"
              THEN {"output", "schema", "payload"}
                       \cup (IF inst = <<>> THEN {} ELSE {"instance"})
              ELSE {}]

\* jsonschema::options()[.with_draft(draft)].build(&schema_json) succeeds: the
\* schema satisfies the meta-schema of the draft in force and its references
\* resolve.
BuildSucceeds(schema, draft) ==
    /\ IF draft = "none" THEN schema.meta_valid ELSE schema.draft_valid
    /\ schema.resolvable

\* output_schema_validation: the lines it prints and what it returns
\* ("true", "false", or "err" for Err).
output_schema_validation(cfg) ==
    LET valid == cfg.schema.meta_valid
    IN IF valid /\ ~BuildSucceeds(cfg.schema, "none")
       THEN [lines |-> <<>>, result |-> "err"]
       ELSE [lines |-> IF ~(cfg.errors_only /\ valid)
                       THEN <<Line("record", cfg.output, <<>>, valid)>> ELSE <<>>,
             result |-> IF valid THEN "true" ELSE "false"]

\* The state of one run: where main is, the loop index, `success`, the
\* Result a callee returned, what was printed, the exit code, and the parser
\* each instance file was given to.
Run(pc, idx, success, result, stdout, exit, parsed) ==
    [pc |-> pc, idx |-> idx, success |-> success, result |-> result,
     stdout |-> stdout, exit |-> exit, parsed |-> parsed]

Returned(st, lines, result) ==
    [st EXCEPT !.pc = "return", !.result = result, !.stdout = st.stdout \o lines]

\* validate_schema_meta: the run without --instance.
validate_schema_meta(cfg, st) ==
    IF read_json(cfg.schema.file).status # "ok" THEN Returned(st, <<>>, "err")
    ELSE IF cfg.output = "text"
    THEN IF ~cfg.schema.meta_valid
         THEN Returned(st, <<Line("Schema is invalid", "text", <<>>, FALSE)>>, "false")
         ELSE IF BuildSucceeds(cfg.schema, "none")
         THEN Returned(st, IF ~cfg.errors_only
                           THEN <<Line("Schema is valid", "text", <<>>, TRUE)>> ELSE <<>>,
                       "true")
         ELSE Returned(st, <<Line("Schema is invalid", "text", <<>>, FALSE)>>, "false")
    ELSE LET shown == output_schema_validation(cfg)
         IN Returned(st, shown.lines, shown.result)

\* validate_instances up to its loop: read the schema and build the validator.
validate_instances_build(cfg, st) ==
    IF read_json(cfg.schema.file).status # "ok" THEN Returned(st, <<>>, "err")
    ELSE IF BuildSucceeds(cfg.schema, cfg.draft)
    THEN [st EXCEPT !.pc = "loop", !.idx = 1]
    ELSE IF cfg.output = "text"
    THEN Returned(st, <<Line("Schema is invalid", "text", <<>>, FALSE)>>, "false")
    ELSE LET shown == output_schema_validation(cfg)
         IN IF shown.result = "err" THEN Returned(st, shown.lines, "err")
            ELSE Returned(st, shown.lines, "false")

\* A variant that lets the last instance decide.
NextSuccess_LastWins(success, valid) == valid
\* if !flag_output.valid { success = false; } (text: if let Some(first) = errors.next())
NextSuccess(success, valid) == IF ~valid THEN FALSE ELSE success

\* A variant that never skips.
SkipValid_Never(errors_only, valid) == FALSE
\* if errors_only && flag_output.valid { continue; } (text: else if !errors_only)
SkipValid(errors_only, valid) == errors_only /\ valid

\* A variant whose record has no `instance`.
InstanceRecord_NoInstance(cfg, file) == Line("record", cfg.output, <<>>, file.valid)
\* json!({"output": .., "schema": .., "instance": .., "payload": ..})
InstanceRecord(cfg, file) == Line("record", cfg.output, <<file>>, file.valid)

\* What the loop prints for an instance that was read.
InstanceLines(cfg, file) ==
    IF cfg.output = "text"
    THEN IF ~file.valid THEN <<Line("INVALID", "text", <<file>>, FALSE)>>
         ELSE IF SkipValid(cfg.errors_only, TRUE) THEN <<>>
         ELSE <<Line("VALID", "text", <<file>>, TRUE)>>
    ELSE IF SkipValid(cfg.errors_only, file.valid) THEN <<>>
    ELSE <<InstanceRecord(cfg, file)>>

\* One iteration of the loop of validate_instances, and its Ok(success) after
\* the last instance.
validate_instance(cfg, st) ==
    LET file == cfg.instances[st.idx]
        read == IF cfg.output = "text" THEN read_json_or_yaml(file) ELSE read_json(file)
        parsed == IF read.parser = "none" THEN st.parsed
                  ELSE Append(st.parsed, [idx |-> st.idx, parser |-> read.parser])
    IN IF read.status # "ok"
       THEN [Returned(st, <<>>, "err") EXCEPT !.parsed = parsed]
       ELSE LET success == NextSuccess(st.success, file.valid)
                after == [st EXCEPT !.idx = st.idx + 1, !.success = success,
                                    !.parsed = parsed,
                                    !.stdout = st.stdout \o InstanceLines(cfg, file)]
            IN IF st.idx = Len(cfg.instances)
               THEN [after EXCEPT !.pc = "return",
                                  !.result = IF success THEN "true" ELSE "false"]
               ELSE after

\* main: the exit code for what validate_instances or validate_schema_meta returned.
main_exit(cfg, st) ==
    CASE st.result = "true" -> [st EXCEPT !.pc = "done", !.exit = "SUCCESS"]
      [] st.result = "false" -> [st EXCEPT !.pc = "done", !.exit = "FAILURE"]
      [] OTHER -> [st EXCEPT !.pc = "done", !.exit = "FAILURE",
                             !.stdout = st.stdout \o <<Line("Error", cfg.output, <<>>, FALSE)>>]

\* One step of the run, and the run to its end.
CliStep(cfg, st) ==
    CASE st.pc = "main" /\ cfg.instances = <<>> -> validate_schema_meta(cfg, st)
      [] st.pc = "main" /\ cfg.instances # <<>> -> validate_instances_build(cfg, st)
      [] st.pc = "loop" -> validate_instance(cfg, st)
      [] st.pc = "return" -> main_exit(cfg, st)
      [] OTHER -> st

RECURSIVE CliRun(_, _)
CliRun(cfg, st) == IF st.pc \in {"done", "idle"} THEN st ELSE CliRun(cfg, CliStep(cfg, st))

\* ------------------------------------------------------------------ state
VARIABLES
    parent,          \* the schema object handed to the keyword compilers
    instance,        \* the instance value
    phase,           \* "schema" before the validator is built, "built" after
    validators,      \* the compiled keyword validators of the schema node
    ran,             \* the entry points called so far
    is_valid_out,    \* per validator: what is_valid returned
    validate_out,    \* per validator: <<>> for Ok, <<e>> for Err(e)
    iter_errors_out, \* per validator: the errors iter_errors yielded
    evaluate_out,    \* per validator: the EvaluationResult evaluate returned
    cells,           \* the lazy reference nodes of the filters, by identity
    stack,           \* the frames of mark_evaluated_properties on the call stack
    evaluated,       \* the set of property names marked so far
    call,            \* the entry point in progress; "overflow" once the stack is
                     \* exhausted, "panic" once the call unwinds
    results,         \* what each completed call on the lazy machine returned, in order
    config,          \* the command line of the CLI and the files it names
    cli,             \* the run of the CLI: position, loop state, output, exit code
    doc,             \* a schema document: the references of its root and of $defs/a
    news,            \* the calls of PropertiesFilter::new on the call stack
    seen,            \* the references the compiler context has marked as seen
    building,        \* "idle", "new" while the filter is built, "built", or "overflow"
    inner,           \* the OnceLock of one lazy reference node: its state and value
    tpc,             \* per thread: its position in get_or_init
    observed,        \* per thread: what the cell's fast path showed it
    got,             \* per thread: the value get_or_init returned to it
    compiled,        \* the threads that ran the compiling closure
    writes,          \* how many times a value was stored in the cell
    waited,          \* the threads that blocked while another was initializing
    required_schema, \* the value of a `required` keyword handed to required::compile
    required_parent, \* the sibling keywords of that `required` keyword
    required_result, \* what required::compile returned for it
    rb_stack,        \* the calls of the Ruby binding in progress, innermost last
    gvl,             \* "held" or "released": the GVL of the Ruby thread
    SUPPRESS_PANIC_OUTPUT, \* the thread-local flag the panic hook reads
    registered,      \* the addresses registered with Ruby's GC
    gc_misuse,       \* an address was registered twice or unregistered while not registered
    rb_calls,        \* how many calls of the binding have begun
    validator_obj    \* the Validator validator_for returned, while it is alive (one at a time)

evalVars == <<parent, instance, phase, validators, ran,
              is_valid_out, validate_out, iter_errors_out, evaluate_out>>
lazyVars == <<cells, stack, evaluated, call, results>>
onceVars == <<inner, tpc, observed, got, compiled, writes, waited>>
cliVars == <<config, cli>>
newVars == <<doc, news, seen, building>>
compileVars == <<required_schema, required_parent, required_result>>
rubyVars == <<rb_stack, gvl, SUPPRESS_PANIC_OUTPUT, registered, gc_misuse, rb_calls,
              validator_obj>>
vars == <<evalVars, lazyVars, onceVars, cliVars, newVars, compileVars, rubyVars>>

\* A schema object without keywords, at the document root.
EmptyParent ==
    [keys |-> {}, required |-> <<>>, properties |-> <<>>, filler |-> 0,
     additionalProperties |-> "absent", location |-> <<>>, draft |-> "Draft202012",
     items |-> [form |-> "absent", schemas |-> <<>>],
     prefixItems |-> [form |-> "absent", schemas |-> <<>>],
     ref |-> "", defs |-> <<>>, seen |-> {},
     allOf |-> <<>>, anyOf |-> <<>>, oneOf |-> <<>>,
     unevaluatedProperties |-> "absent", additionalType |-> "any",
     form |-> "object", if_ |-> <<>>, then_ |-> <<>>, else_ |-> <<>>]

\* The boolean schema `true`, where a subschema may stand.
TrueSchema == [EmptyParent EXCEPT !.form = "true"]

Names == {"a", "b", "c"}
PropNames == {"a", "b"}

\* Objects as serde_json's Map iterates them: distinct names, any order.
Objects(names, kinds, n) ==
    {Object(ps) : ps \in {qs \in SeqsUpTo({Member(nm, Scalar(k)) : nm \in names, k \in kinds}, n) :
                            DistinctNames(qs)}}

\* `required` alone: every array of names up to MaxRequired, repeats included.
RequiredParents ==
    {[EmptyParent EXCEPT !.keys = {"required"}, !.required = r] :
        r \in SeqsUpTo(Names, MaxRequired)}

\* `properties` of {"type": "integer"} subschemas beside `required`,
\* `additionalProperties` and `patternProperties`.
PropertyLists ==
    {ps \in SeqsUpTo({[name |-> nm, type |-> "integer"] : nm \in PropNames}, MaxProps) :
        ps # <<>> /\ DistinctNames(ps)}

PropertiesParents ==
    {[EmptyParent EXCEPT
        !.keys = {"properties"} \cup (IF hasreq THEN {"required"} ELSE {})
                 \cup (IF pattern THEN {"patternProperties"} ELSE {})
                 \cup (IF addl = "absent" THEN {} ELSE {"additionalProperties"}),
        !.required = r, !.properties = ps, !.filler = f,
        !.additionalProperties = addl] :
        hasreq \in BOOLEAN, pattern \in BOOLEAN, addl \in {"absent", "false", "object"},
        r \in SeqsUpTo(PropNames, MaxPropsRequired), ps \in PropertyLists,
        f \in {0, HASHMAP_THRESHOLD}}

\* The threads that may reach one lazy reference node.
NThreads == 3
Threads == 1..NThreads

\* The deepest the call stack can nest mark_evaluated_properties.
StackLimit == 4

\* No run of the CLI.
NoConfig ==
    [output |-> "text", errors_only |-> FALSE, draft |-> "none",
     schema |-> [file |-> File("json", FALSE, "garbage", FALSE), meta_valid |-> FALSE,
                 draft_valid |-> FALSE, resolvable |-> FALSE],
     instances |-> <<>>]

NoRun ==
    /\ config = NoConfig
    /\ cli = Run("idle", 0, TRUE, "", <<>>, "none", <<>>)

\* A schema object's references: `$ref`, `$dynamicRef` ("" when absent) and
\* whether it has `$recursiveRef`.
References(ref_, dynamic_ref, recursive_ref) ==
    [ref |-> ref_, dynamic_ref |-> dynamic_ref, recursive_ref |-> recursive_ref]

\* No filter under construction.
NoDocument ==
    [draft |-> "Draft202012", root |-> References("", "", FALSE),
     a |-> References("", "", FALSE), seen |-> {}]

NoNew ==
    /\ doc = NoDocument
    /\ news = <<>>
    /\ seen = {}
    /\ building = "idle"

NoCompile ==
    /\ required_schema = <<>>
    /\ required_parent = <<>>
    /\ required_result = [tag |-> "Idle", variant |-> "", required |-> <<>>, error |-> <<>>]

\* No Validator object is alive.
NoValidator == [exists |-> FALSE, has_ruby_callbacks |-> FALSE, callbacks |-> {}, comp |-> {}]

NoRuby ==
    /\ rb_stack = <<>>
    /\ gvl = "held"
    /\ SUPPRESS_PANIC_OUTPUT = FALSE
    /\ registered = {}
    /\ gc_misuse = FALSE
    /\ rb_calls = 0
    /\ validator_obj = NoValidator

FreshValidator ==
    /\ cells = <<>>
    /\ stack = <<>>
    /\ evaluated = {}
    /\ call = ""
    /\ results = <<>>
    /\ inner = [state |-> "incomplete", value |-> 0]
    /\ tpc = [t \in Threads |-> "idle"]
    /\ observed = [t \in Threads |-> "none"]
    /\ got = [t \in Threads |-> 0]
    /\ compiled = {}
    /\ writes = 0
    /\ waited = {}
    /\ phase = "schema"
    /\ validators = <<>>
    /\ ran = {}
    /\ is_valid_out = <<>>
    /\ validate_out = <<>>
    /\ iter_errors_out = <<>>
    /\ evaluate_out = <<>>

Fresh == FreshValidator /\ NoRun /\ NoNew /\ NoCompile /\ NoRuby

InitObject ==
    /\ \/ /\ parent \in RequiredParents
          /\ instance \in Objects(Names, {"int"}, Cardinality(Names)) \cup {Scalar("str")}
       \/ /\ parent \in {p \in PropertiesParents : "required" \in p.keys \/ p.required = <<>>}
          /\ instance \in Objects(PropNames, {"int", "str"}, Cardinality(PropNames))
                            \cup {Scalar("str")}
    /\ Fresh

\* validator_for / build: compile the keywords of the schema object; an error
\* of a keyword's compile is the error of the build.
Build ==
    /\ phase = "schema"
    /\ phase' = IF unevaluated_properties_compile(CompilerContext(parent), parent).error
                THEN "error" ELSE "built"
    /\ validators' = NodeCompile(parent)
    /\ cells' = unevaluated_properties_compile(CompilerContext(parent), parent).lazies
    /\ UNCHANGED <<parent, instance, ran, is_valid_out, validate_out, iter_errors_out,
                   evaluate_out>>
    /\ UNCHANGED <<stack, evaluated, call, results, onceVars, cliVars, newVars, compileVars, rubyVars>>

IsValid ==
    /\ phase = "built"
    /\ "is_valid" \notin ran
    /\ ran' = ran \cup {"is_valid"}
    /\ is_valid_out' = [i \in 1..Len(validators) |-> Validate_is_valid(validators[i], instance)]
    /\ UNCHANGED <<parent, instance, phase, validators, validate_out, iter_errors_out,
                   evaluate_out>>
    /\ UNCHANGED <<lazyVars, onceVars, cliVars, newVars, compileVars, rubyVars>>

ValidateCall ==
    /\ phase = "built"
    /\ "validate" \notin ran
    /\ ran' = ran \cup {"validate"}
    /\ validate_out' = [i \in 1..Len(validators) |->
                            Validate_validate(validators[i], instance, <<>>)]
    /\ UNCHANGED <<parent, instance, phase, validators, is_valid_out, iter_errors_out,
                   evaluate_out>>
    /\ UNCHANGED <<lazyVars, onceVars, cliVars, newVars, compileVars, rubyVars>>

IterErrors ==
    /\ phase = "built"
    /\ "iter_errors" \notin ran
    /\ ran' = ran \cup {"iter_errors"}
    /\ iter_errors_out' = [i \in 1..Len(validators) |->
                              Validate_iter_errors(validators[i], instance, <<>>)]
    /\ UNCHANGED <<parent, instance, phase, validators, is_valid_out, validate_out,
                   evaluate_out>>
    /\ UNCHANGED <<lazyVars, onceVars, cliVars, newVars, compileVars, rubyVars>>

Evaluate ==
    /\ phase = "built"
    /\ "evaluate" \notin ran
    /\ ran' = ran \cup {"evaluate"}
    /\ evaluate_out' = [i \in 1..Len(validators) |->
                            Validate_evaluate(validators[i], instance, <<>>)]
    /\ UNCHANGED <<parent, instance, phase, validators, is_valid_out, validate_out,
                   iter_errors_out>>
    /\ UNCHANGED <<lazyVars, onceVars, cliVars, newVars, compileVars, rubyVars>>

NextEval == Build \/ IsValid \/ ValidateCall \/ IterErrors \/ Evaluate

SpecObject == InitObject /\ [][NextEval]_vars

\* ------------------------------------------------- claims: required, properties
AllRan == {"is_valid", "validate", "iter_errors"} \subseteq ran

RequiredVariants ==
    {"RequiredValidator", "SingleItemRequiredValidator", "Required2Validator",
     "Required3Validator", "SmallPropertiesWithRequired2Validator"}

\* C1: for every `required` list compile accepts (1-, 2-, 3-, N-name validator or
\* the fused properties+required validator) and every instance, is_valid is true
\* exactly when validate is Ok and exactly when iter_errors yields nothing.
C1_VerdictsAgree ==
    AllRan =>
        \A i \in 1..Len(validators) :
            validators[i].variant \in RequiredVariants =>
                /\ is_valid_out[i] <=> (validate_out[i] = <<>>)
                /\ is_valid_out[i] <=> (iter_errors_out[i] = <<>>)

\* One Required error per listed name the object lacks, in the order of the list.
RECURSIVE AbsentInOrder(_, _)
AbsentInOrder(names, inst) ==
    IF names = <<>> THEN <<>>
    ELSE (IF \A i \in 1..Len(inst.props) : inst.props[i].name # Head(names)
          THEN <<[kind |-> "Required", schema_location |-> <<"required">>,
                  instance_location |-> <<>>, instance |-> inst,
                  payload |-> Head(names)]>>
          ELSE <<>>)
         \o AbsentInOrder(Tail(names), inst)

\* C5: iter_errors of a `required` validator yields exactly one Required error per
\* listed name absent from the object, in the order of the `required` array, the
\* same for the 2-name, 3-name and N-name variants; a non-object yields none.
C5_RequiredErrorsInOrder ==
    "iter_errors" \in ran =>
        \A i \in 1..Len(validators) :
            validators[i].kw = "required" =>
                /\ iter_errors_out[i] =
                      (IF instance.kind = "object"
                       THEN AbsentInOrder(validators[i].required, instance) ELSE <<>>)
                /\ iter_errors_out[i] =
                      RequiredValidator_iter_errors(validators[i], instance, <<>>)

\* C5's case: the 3-name variant reported two of its names, the second and third.
C5_Witness ==
    /\ "iter_errors" \in ran
    /\ \E i \in 1..Len(validators) :
          /\ validators[i].variant = "Required3Validator"
          /\ instance.kind = "object"
          /\ Len(iter_errors_out[i]) = 2
          /\ iter_errors_out[i][2].payload = validators[i].required[3]

\* The schema object properties::compile fuses: `properties` below the size
\* threshold, `required` of two names, no patternProperties, and
\* additionalProperties neither false nor an object.
FusedCase(p) ==
    /\ "properties" \in p.keys
    /\ Len(p.properties) + p.filler < HASHMAP_THRESHOLD
    /\ "required" \in p.keys
    /\ Len(p.required) = 2
    /\ p.required[1] # p.required[2]
    /\ "patternProperties" \notin p.keys
    /\ p.additionalProperties \notin {"false", "object"}

\* iter_errors of the schema node: the errors of its validators, concatenated.
NodeIterErrors == Flatten(iter_errors_out)

RequiredErrorsNaming(errors, n) ==
    {k \in 1..Len(errors) : errors[k].kind = "Required" /\ errors[k].payload = n}

\* C6: for a schema the fused properties+required validator handles, iter_errors
\* over the whole schema reports each missing required name exactly once (and a
\* present one never).
C6_MissingNameReportedOnce ==
    (FusedCase(parent) /\ "iter_errors" \in ran /\ instance.kind = "object") =>
        \A k \in 1..2 :
            Cardinality(RequiredErrorsNaming(NodeIterErrors, parent.required[k]))
                = IF contains_key(instance, parent.required[k]) THEN 0 ELSE 1

\* The names of the properties the Type errors of `errors` are about, in order.
PropertyErrorNames(errors) ==
    LET type_errors == SelectSeq(errors, LAMBDA e : e.kind = "Type")
    IN [k \in 1..Len(type_errors) |-> type_errors[k].instance_location[1]]

PositionIn(inst, name) == CHOOSE i \in 1..Len(inst.props) : inst.props[i].name = name

\* C9: the errors a `properties` validator (linear scan, fused, hash map) reports
\* for different properties of one object come in the order those properties
\* have in the instance, and that order is the same for the three variants.
C9_PropertyErrorsInInstanceOrder ==
    ("iter_errors" \in ran /\ instance.kind = "object") =>
        \A i \in 1..Len(validators) :
            validators[i].kw = "properties" =>
                LET ns == PropertyErrorNames(iter_errors_out[i])
                IN /\ \A k, l \in 1..Len(ns) :
                        k < l => PositionIn(instance, ns[k]) < PositionIn(instance, ns[l])
                   /\ ns = PropertyErrorNames(
                              BigPropertiesValidator_iter_errors(validators[i], instance, <<>>))

\* ------------------------------------------------------------ state: items
\* The longest instance array.
MaxItems == 3

ItemKinds == {"bool", "int", "zfrac", "frac", "str"}

Arrays(n) == {Array(es) : es \in SeqsUpTo({Scalar(k) : k \in ItemKinds}, n)}

ItemTypes == {"string", "number", "integer", "boolean", "null"}

\* `items`: {"type": T} alone or beside one annotation keyword, `false`, or an
\* array of schemas.
ItemsSchemas ==
    {[form |-> "object", schemas |-> <<Subschema(t, o)>>] : t \in ItemTypes, o \in 0..1}
        \cup {[form |-> "false", schemas |-> <<Subschema("false", 0)>>]}
        \cup {[form |-> "array", schemas |-> ss] :
                 ss \in {<<>>, <<Subschema("string", 0), Subschema("integer", 0)>>}}

PrefixItemsSchemas ==
    {[form |-> "absent", schemas |-> <<>>],
     [form |-> "array", schemas |-> <<Subschema("integer", 0)>>],
     [form |-> "array", schemas |-> <<Subschema("integer", 0), Subschema("boolean", 0)>>]}

ItemsParents ==
    {[EmptyParent EXCEPT
        !.keys = {"items"} \cup (IF pre.form = "absent" THEN {} ELSE {"prefixItems"}),
        !.items = it, !.prefixItems = pre, !.draft = d] :
        it \in ItemsSchemas, pre \in PrefixItemsSchemas, d \in Drafts}

InitItems ==
    /\ parent \in ItemsParents
    /\ instance \in Arrays(MaxItems) \cup {Scalar("str")}
    /\ Fresh

SpecItems == InitItems /\ [][NextEval]_vars

\* ------------------------------------------------------------ claims: items
SimpleTypes == {"string", "number", "integer", "boolean"}

\* `items` is exactly {"type": T} with T one of the four specialized types,
\* and the schema has no prefixItems.
SpecializedCase(p) ==
    /\ "items" \in p.keys
    /\ "prefixItems" \notin p.keys
    /\ get_simple_type_schema(p.items) # <<>>
    /\ get_simple_type_schema(p.items)[1] \in SimpleTypes

\* The generic validator for the same schema: each element against the
\* compiled subschema {"type": T}.
GenericItems(p) ==
    ItemsValidator("items", "ItemsObjectValidator",
                   <<SchemaNode(p.items.schemas[1].type, p.location \o <<"items">>, p.draft)>>,
                   0, p.location \o <<"items">>)

\* C8: for items: {"type": T}, T in {string, number, integer, boolean}, without
\* prefixItems, the type-specialized validator gives the same verdict and the
\* same iter_errors output as the generic validator that checks each element
\* against the subschema {"type": T}.
C8_SpecializedItemsAgreeWithGeneric ==
    (SpecializedCase(parent) /\ AllRan) =>
        /\ Len(validators) = 1
        /\ validators[1].variant \notin
               {"ItemsObjectValidator", "ItemsObjectSkipPrefixValidator", "ItemsArrayValidator"}
        /\ is_valid_out[1] = ItemsObjectValidator_is_valid(GenericItems(parent), instance)
        /\ validate_out[1] = ItemsObjectValidator_validate(GenericItems(parent), instance, <<>>)
        /\ iter_errors_out[1] =
               ItemsObjectValidator_iter_errors(GenericItems(parent), instance, <<>>)

\* C8's case: the string-specialized validator reported two elements of an
\* array whose first element is a string.
C8_Witness ==
    /\ SpecializedCase(parent)
    /\ AllRan
    /\ validators[1].variant = "ItemsStringTypeValidator"
    /\ instance.kind = "array"
    /\ Len(iter_errors_out[1]) = 2
    /\ instance.elems[1].kind = "str"

\* An element `items: {"type": "integer"}` accepts under draft d: a plain
\* integer, or a number written with a zero fraction unless the draft is 4.
AcceptsAsInteger(d, item) ==
    \/ item.kind = "int"
    \/ item.kind = "zfrac" /\ d # "Draft4"

\* C10: items: {"type": "integer"} accepts an element written 1.0 under every
\* draft except Draft 4, where it rejects it; under every draft it accepts plain
\* integers and rejects numbers with a non-zero fraction and non-numbers.
C10_IntegerItemsByDraft ==
    (/\ SpecializedCase(parent)
     /\ parent.items.schemas[1].type = "integer"
     /\ instance.kind = "array"
     /\ AllRan) =>
        LET rejected == {k \in 1..Len(instance.elems) :
                            ~AcceptsAsInteger(parent.draft, instance.elems[k])}
        IN /\ is_valid_out[1] <=> (rejected = {})
           /\ (validate_out[1] = <<>>) <=> (rejected = {})
           /\ {iter_errors_out[1][j].instance_location[1] + 1 :
                   j \in 1..Len(iter_errors_out[1])} = rejected
           /\ Len(iter_errors_out[1]) = Cardinality(rejected)

\* C10's case: under Draft 4 an array of integers and zero-fraction numbers,
\* one of them written with the fraction, was rejected.
C10_Witness ==
    /\ SpecializedCase(parent)
    /\ parent.items.schemas[1].type = "integer"
    /\ parent.draft = "Draft4"
    /\ AllRan
    /\ instance.kind = "array"
    /\ \A k \in 1..Len(instance.elems) : instance.elems[k].kind \in {"int", "zfrac"}
    /\ \E k \in 1..Len(instance.elems) : instance.elems[k].kind = "zfrac"
    /\ ~is_valid_out[1]

\* The same schema object without its `prefixItems` member.
WithoutPrefixItems(p) ==
    [p EXCEPT !.keys = @ \ {"prefixItems"},
              !.prefixItems = [form |-> "absent", schemas |-> <<>>]]

\* `items` is a schema (an object or `false`) beside a `prefixItems` array,
\* under a draft that does not define prefixItems.
LegacyPrefixItemsCase(p) ==
    /\ p.draft # "Draft202012"
    /\ p.keys = {"items", "prefixItems"}
    /\ p.prefixItems.form = "array"
    /\ p.items.form \in {"object", "false"}

\* What the validators compiled from schema object p report for an instance.
VerdictOf(p, inst) == \A i \in 1..Len(NodeCompile(p)) : Validate_is_valid(NodeCompile(p)[i], inst)
ErrorsOf(p, inst) ==
    Flatten([i \in 1..Len(NodeCompile(p)) |-> Validate_iter_errors(NodeCompile(p)[i], inst, <<>>)])

\* C11: under Draft 4, 6, 7 and 2019-09 a `prefixItems` array beside
\* `items: {...}` changes nothing: the verdict and the errors are those of the
\* schema without prefixItems, so items is applied to every element from index 0.
C11_PrefixItemsIgnoredBeforeDraft202012 ==
    (LegacyPrefixItemsCase(parent) /\ AllRan) =>
        /\ (\A i \in 1..Len(validators) : is_valid_out[i])
               <=> VerdictOf(WithoutPrefixItems(parent), instance)
        /\ Flatten(iter_errors_out) = ErrorsOf(WithoutPrefixItems(parent), instance)

\* -------------------------------------------------- state: error locations
\* Where a schema object may sit in its document: the root, or under $defs.
SchemaPaths == {<<>>, <<"$defs", "a">>}

LocationKinds == {"int", "frac", "str"}

At(p, path) == [p EXCEPT !.location = path]

\* `required` in every variant, `properties` beside `required`, and `items` /
\* `prefixItems` in every form, each at every schema path.
InitLocations ==
    /\ \E path \in SchemaPaths :
          \/ /\ parent \in {At(p, path) : p \in RequiredParents}
             /\ instance \in Objects(Names, {"int"}, Cardinality(Names)) \cup {Scalar("str")}
          \/ /\ parent \in {At(p, path) : p \in {q \in PropertiesParents : "required" \in q.keys}}
             /\ instance \in Objects(PropNames, {"int", "str"}, Cardinality(PropNames))
          \/ /\ parent \in {At(p, path) : p \in ItemsParents}
             /\ instance \in {Array(es) : es \in SeqsUpTo({Scalar(k) : k \in LocationKinds},
                                                       MaxItems)}
    /\ Fresh

SpecLocations == InitLocations /\ [][NextEval]_vars

\* ------------------------------------------------- claims: error locations
\* The value a JSON Pointer of at most one token designates inside `inst`;
\* Unresolved when the pointer leads nowhere.
Unresolved == [kind |-> "unresolved", props |-> <<>>, elems |-> <<>>]

Resolve(inst, path) ==
    IF path = <<>> THEN inst
    ELSE IF Len(path) = 1 /\ inst.kind = "array"
    THEN IF path[1] \in 0..(Len(inst.elems) - 1) THEN inst.elems[path[1] + 1] ELSE Unresolved
    ELSE Unresolved

\* Every error validator i returned, through validate or iter_errors.
ErrorsReturned(i) ==
    {validate_out[i][j] : j \in 1..Len(validate_out[i])}
        \cup {iter_errors_out[i][j] : j \in 1..Len(iter_errors_out[i])}

LocatedKeywords == {"required", "items", "prefixItems"}

\* C12: every error of the required, items and prefixItems validators carries
\* as its instance the value its instance location designates in the original
\* instance: a Required error the object itself at the object's location, an
\* element error the element at its absolute index.
C12_InstanceLocationDesignatesInstance ==
    AllRan =>
        \A i \in 1..Len(validators) : \A e \in ErrorsReturned(i) :
            (validators[i].kw \in LocatedKeywords \/ e.kind = "Required") =>
                /\ Resolve(instance, e.instance_location) = e.instance
                /\ e.kind = "Required" => e.instance_location = <<>>
                /\ e.kind # "Required" => Len(e.instance_location) = 1

\* C12's case: validate of the skip-prefix items validator returned an error
\* for an element behind the prefix.
C12_Witness ==
    /\ AllRan
    /\ Len(validators) = 2
    /\ validators[2].variant = "ItemsObjectSkipPrefixValidator"
    /\ validators[2].skip_prefix = 1
    /\ validate_out[2] # <<>>
    /\ validate_out[2][1].instance_location = <<2>>
    /\ instance.elems[1] # instance.elems[3]

TypedItemsVariants ==
    {"ItemsNumberTypeValidator", "ItemsStringTypeValidator", "ItemsIntegerTypeValidator",
     "ItemsIntegerTypeValidatorDraft4", "ItemsBooleanTypeValidator"}

\* C13: every Required error carries <path of the schema>/required and every
\* error of a type-specialized items validator <path>/items/type, the location
\* the generic items validator reports, whichever variant produced it.
C13_SchemaLocationOfKeyword ==
    AllRan =>
        \A i \in 1..Len(validators) : \A e \in ErrorsReturned(i) :
            /\ e.kind = "Required" => e.schema_location = parent.location \o <<"required">>
            /\ validators[i].variant \in TypedItemsVariants =>
                  /\ e.schema_location = parent.location \o <<"items", "type">>
                  /\ \E g \in {ItemsObjectValidator_iter_errors(GenericItems(parent), instance, <<>>)} :
                        \E j \in 1..Len(g) : g[j].schema_location = e.schema_location

\* C13's case: below the root, the fused properties validator and a
\* required validator each reported a missing name.
C13_Witness ==
    /\ AllRan
    /\ parent.location # <<>>
    /\ \E i \in 1..Len(validators) :
          /\ validators[i].variant = "SmallPropertiesWithRequired2Validator"
          /\ \E e \in ErrorsReturned(i) : e.kind = "Required"
    /\ \E i \in 1..Len(validators) :
          /\ validators[i].kw = "required"
          /\ ErrorsReturned(i) # {}

\* ------------------------------------------- state: unevaluatedProperties
\* The most subschemas an allOf / anyOf / oneOf array has.
MaxBranches == 2

\* A branch of a combinator: `properties` with one entry for "a" (`true` or
\* {"type": "integer"}) or none, and `required` of "b" or none; or `true`.
Branches ==
    {TrueSchema} \cup
    {[EmptyParent EXCEPT
        !.keys = (IF ps = <<>> THEN {} ELSE {"properties"})
                 \cup (IF r = <<>> THEN {} ELSE {"required"}),
        !.properties = ps, !.required = r] :
        ps \in {<<>>, <<[name |-> "a", type |-> "any"]>>,
                <<[name |-> "a", type |-> "integer"]>>},
        r \in {<<>>, <<"b">>}}

\* A schema with unevaluatedProperties (`false`, `true` or {"type": "string"})
\* beside `properties`, `additionalProperties` and one combinator.
UnevaluatedParents ==
    {[EmptyParent EXCEPT
        !.keys = {"unevaluatedProperties"}
                 \cup (IF ps = <<>> THEN {} ELSE {"properties"})
                 \cup (IF addl THEN {"additionalProperties"} ELSE {})
                 \cup (IF comb = "none" THEN {} ELSE {comb}),
        !.properties = ps,
        !.additionalProperties = IF addl THEN "object" ELSE "absent",
        !.additionalType = "integer",
        !.allOf = IF comb = "allOf" THEN bs ELSE <<>>,
        !.anyOf = IF comb = "anyOf" THEN bs ELSE <<>>,
        !.oneOf = IF comb = "oneOf" THEN bs ELSE <<>>,
        !.unevaluatedProperties = u] :
        ps \in {<<>>, <<[name |-> "b", type |-> "integer"]>>},
        addl \in BOOLEAN,
        comb \in {"none", "allOf", "anyOf", "oneOf"},
        bs \in SeqsUpTo(Branches, MaxBranches),
        u \in {"false", "true", "string"}}

\* What `then` and `else` may hold: nothing, or `properties` with one entry.
Consequents ==
    {<<>>} \cup {<<[EmptyParent EXCEPT !.keys = {"properties"},
                                       !.properties = <<[name |-> nm, type |-> "any"]>>]>> :
                    nm \in PropNames}

\* A schema with unevaluatedProperties: false beside `if`, `then` and `else`.
ConditionalParents ==
    {[EmptyParent EXCEPT
        !.keys = {"unevaluatedProperties", "if"}
                 \cup (IF t = <<>> THEN {} ELSE {"then"})
                 \cup (IF e = <<>> THEN {} ELSE {"else"}),
        !.if_ = <<c>>, !.then_ = t, !.else_ = e, !.unevaluatedProperties = "false"] :
        c \in Branches, t \in Consequents, e \in Consequents}

InitUnevaluated ==
    /\ parent \in {p \in UnevaluatedParents :
                      p.additionalProperties = "object" => p.allOf \o p.anyOf \o p.oneOf = <<>>}
                    \cup ConditionalParents
    /\ instance \in Objects(PropNames, {"int", "str"}, Cardinality(PropNames))
                        \cup {Scalar("str")}
    /\ Fresh

SpecUnevaluated == InitUnevaluated /\ [][NextEval]_vars

\* ------------------------------------------ claims: unevaluatedProperties
\* The unevaluatedProperties validator of the built schema, when it has one.
HasUnevaluated == \E i \in 1..Len(validators) : validators[i].kw = "unevaluatedProperties"
UnevaluatedIndex == CHOOSE i \in 1..Len(validators) : validators[i].kw = "unevaluatedProperties"

\* The schema: anyOf and unevaluatedProperties: false, nothing else.
AnyOfCase(p) == p.keys = {"anyOf", "unevaluatedProperties"} /\ p.unevaluatedProperties = "false"

BranchSatisfied(branch, inst) == NodeIsValid(NodeCompile(branch), inst)

BranchMatches(branch, name) ==
    "properties" \in branch.keys /\
        \E k \in 1..Len(branch.properties) : branch.properties[k].name = name

\* C2: a property matched only inside anyOf branches the instance does not
\* satisfy is not marked evaluated, even when another branch is satisfied: with
\* unevaluatedProperties: false it is among the properties validate reports.
C2_OnlySatisfiedBranchesContribute ==
    (/\ AnyOfCase(parent)
     /\ "validate" \in ran
     /\ instance.kind = "object") =>
        \A i \in 1..Len(instance.props) :
            (\A k \in 1..Len(parent.anyOf) :
                BranchMatches(parent.anyOf[k], instance.props[i].name)
                    => ~BranchSatisfied(parent.anyOf[k], instance))
            => /\ validate_out[UnevaluatedIndex] # <<>>
               /\ \E j \in 1..Len(validate_out[UnevaluatedIndex][1].payload) :
                      validate_out[UnevaluatedIndex][1].payload[j] = instance.props[i].name

\* The properties of the object that are neither in `marked` nor valid
\* against the unevaluatedProperties subschema `node`, in the object's order.
RECURSIVE NotEvaluated(_, _, _)
NotEvaluated(members, marked, node) ==
    IF members = <<>> THEN <<>>
    ELSE (IF Head(members).name \in marked \/ SchemaNode_is_valid(node, Head(members).value)
          THEN <<>> ELSE <<Head(members).name>>)
         \o NotEvaluated(Tail(members), marked, node)

\* C7: for an object, unevaluatedProperties validate returns at most one error;
\* it lists exactly the properties neither in the evaluated set nor valid against
\* the unevaluatedProperties subschema, in the instance's order; validate is Ok
\* iff that list is empty, and is_valid is true in exactly the same cases.
C7_OneErrorListsUnevaluated ==
    (HasUnevaluated /\ AllRan /\ instance.kind = "object") =>
        LET v == validators[UnevaluatedIndex]
            expected == NotEvaluated(instance.props,
                                     mark_evaluated_properties(v.filter, instance),
                                     v.filter.unevaluated[1])
            out == validate_out[UnevaluatedIndex]
        IN /\ Len(out) <= 1
           /\ (out = <<>>) <=> (expected = <<>>)
           /\ out # <<>> => out[1].kind = "UnevaluatedProperties" /\ out[1].payload = expected
           /\ is_valid_out[UnevaluatedIndex] <=> (expected = <<>>)

\* C7's case: validate reported two properties of the object, in its order.
C7_Witness ==
    /\ HasUnevaluated
    /\ AllRan
    /\ instance.kind = "object"
    /\ validate_out[UnevaluatedIndex] # <<>>
    /\ validate_out[UnevaluatedIndex][1].payload = <<"b", "a">>
    /\ ~is_valid_out[UnevaluatedIndex]

\* -------------------------------------------------- state: lazy references
\* The definition "#/$defs/a": an object schema with one property.
DefA ==
    [EmptyParent EXCEPT !.keys = {"properties"},
                        !.properties = <<[name |-> "a", type |-> "integer"]>>]

\* A definition whose own `$ref` leads nowhere.
DefUnresolvable ==
    [EmptyParent EXCEPT !.keys = {"$ref"}, !.ref = "#/$defs/missing"]

\* Schemas with unevaluatedProperties beside a `$ref` to the document root or
\* to the definition (an object schema, one whose own reference does not
\* resolve, or `true`), or without `$ref`; `seen` is what the compiler marked
\* before it reached unevaluatedProperties.
ReferenceParents ==
    {[EmptyParent EXCEPT
        !.keys = {"unevaluatedProperties", "$defs"}
                 \cup (IF r = "" THEN {} ELSE {"$ref"}),
        !.ref = r, !.defs = <<a>>, !.seen = sn, !.unevaluatedProperties = u] :
        a \in {DefA, DefUnresolvable, TrueSchema},
        r \in {"", "#", "#/$defs/a"},
        sn \in SUBSET {"#", "#/$defs/a"},
        u \in {"false", "string"}}

InitLazy ==
    /\ parent \in ReferenceParents
    /\ instance \in Objects(PropNames, {"int", "str"}, Cardinality(PropNames))
                        \cup {Scalar("str")}
    /\ Fresh

\* The unevaluatedProperties validator of the built schema.
TheValidator ==
    validators[CHOOSE i \in 1..Len(validators) : validators[i].kw = "unevaluatedProperties"]

\* The innermost frame.
Top == stack[Len(stack)]

\* A nested call of mark_evaluated_properties on `filter`: the caller resumes
\* after its references; the call does not fit when the stack is exhausted.
Call(filter) ==
    IF Len(stack) < StackLimit
    THEN /\ stack' = Append([stack EXCEPT ![Len(stack)].pc = "after"],
                            [filter |-> filter, pc |-> "ref_"])
         /\ call' = call
    ELSE /\ stack' = stack
         /\ call' = "overflow"

\* UnevaluatedPropertiesValidator::validate / is_valid, entry: for an object
\* the filter starts marking into an empty set.
Enter(c) ==
    /\ phase = "built"
    /\ call = ""
    /\ c \notin ran
    /\ \E i \in 1..Len(validators) : validators[i].kw = "unevaluatedProperties"
    /\ call' = c
    /\ evaluated' = {}
    /\ stack' = IF IsObject(instance)
                THEN <<[filter |-> TheValidator.filter, pc |-> "ref_"]>> ELSE <<>>
    /\ UNCHANGED <<evalVars, rubyVars, compileVars, cells, results, onceVars, cliVars, newVars>>

\* mark_evaluated_properties of a filter without `$ref`.
NoReference ==
    /\ call \in {"is_valid", "validate"}
    /\ stack # <<>>
    /\ Top.pc = "ref_"
    /\ Top.filter.ref_ = <<>>
    /\ stack' = [stack EXCEPT ![Len(stack)].pc = "after"]
    /\ UNCHANGED <<evalVars, rubyVars, compileVars, cells, evaluated, call, results, onceVars, cliVars, newVars>>

\* ReferenceFilter::Default: the filter compiled in place marks.
FollowDefault ==
    /\ call \in {"is_valid", "validate"}
    /\ stack # <<>>
    /\ Top.pc = "ref_"
    /\ Top.filter.ref_ # <<>>
    /\ Top.filter.ref_[1].kind = "Default"
    /\ Call(Top.filter.ref_[1].filter[1])
    /\ UNCHANGED <<evalVars, rubyVars, compileVars, cells, evaluated, results, onceVars, cliVars, newVars>>

\* A variant whose first use stores the compiled filter without marking with it.
GetOrInit_StoreOnly ==
    /\ call \in {"is_valid", "validate"}
    /\ stack # <<>>
    /\ Top.pc = "ref_"
    /\ Top.filter.ref_ # <<>>
    /\ Top.filter.ref_[1].kind = "Recursive"
    /\ LET id == Top.filter.ref_[1].lazy
           cell == cells[id]
           made == PropertiesFilter_new(
                       Top.filter.kind,
                       Context({}, cell.registry, cell.draft, <<>>),
                       cell.resource, Len(cells) + 1)
           failed == \/ cell.resource.form # "object"
                     \/ PropertiesFilter_new_is_err(
                            Top.filter.kind,
                            Context({}, cell.registry, cell.draft, <<>>), cell.resource)
       IN IF cell.inner = <<>> /\ failed
          THEN /\ cells' = cells
               /\ stack' = stack
               /\ call' = "panic"
          ELSE IF cell.inner = <<>>
          THEN /\ cells' = [cells EXCEPT ![id].inner = <<made.filter>>] \o made.lazies
               /\ stack' = [stack EXCEPT ![Len(stack)].pc = "after"]
               /\ call' = call
          ELSE /\ cells' = cells
               /\ Call(cell.inner[1])
    /\ UNCHANGED <<evalVars, rubyVars, compileVars, evaluated, results, onceVars, cliVars, newVars>>

\* ReferenceFilter::Recursive: LazyReference::get_or_init compiles the filter
\* of the resource in a new compiler context on first use and stores it; then
\* the stored filter marks. When the resource is not an object or the
\* compilation returns Err, expect panics: nothing is stored and the call unwinds.
GetOrInit ==
    /\ call \in {"is_valid", "validate"}
    /\ stack # <<>>
    /\ Top.pc = "ref_"
    /\ Top.filter.ref_ # <<>>
    /\ Top.filter.ref_[1].kind = "Recursive"
    /\ LET id == Top.filter.ref_[1].lazy
           cell == cells[id]
           made == PropertiesFilter_new(
                       Top.filter.kind,
                       Context({}, cell.registry, cell.draft, <<>>),
                       cell.resource, Len(cells) + 1)
           failed == \/ cell.resource.form # "object"
                     \/ PropertiesFilter_new_is_err(
                            Top.filter.kind,
                            Context({}, cell.registry, cell.draft, <<>>), cell.resource)
       IN IF cell.inner = <<>> /\ failed
          THEN /\ cells' = cells
               /\ stack' = stack
               /\ call' = "panic"
          ELSE IF cell.inner = <<>>
          THEN /\ cells' = [cells EXCEPT ![id].inner = <<made.filter>>] \o made.lazies
               /\ Call(made.filter)
          ELSE /\ cells' = cells
               /\ Call(cell.inner[1])
    /\ UNCHANGED <<evalVars, rubyVars, compileVars, evaluated, results, onceVars, cliVars, newVars>>

\* The rest of mark_evaluated_properties, and its return to the caller.
MarkAndReturn ==
    /\ call \in {"is_valid", "validate"}
    /\ stack # <<>>
    /\ Top.pc = "after"
    /\ evaluated' = evaluated \cup MarkAfterReferences(Top.filter, instance)
    /\ stack' = SubSeq(stack, 1, Len(stack) - 1)
    /\ UNCHANGED <<evalVars, rubyVars, compileVars, cells, call, results, onceVars, cliVars, newVars>>

\* The validator's loop over the properties once the filter has marked.
Finish ==
    /\ call \in {"is_valid", "validate"}
    /\ stack = <<>>
    /\ ran' = ran \cup {call}
    /\ call' = ""
    /\ IF call = "validate"
       THEN /\ validate_out' =
                 <<IF IsObject(instance)
                   THEN ValidateWith(TheValidator, instance, <<>>, evaluated) ELSE <<>>>>
            /\ UNCHANGED is_valid_out
       ELSE /\ is_valid_out' =
                 <<IsObject(instance) =>
                       Unevaluated(TheValidator, instance, evaluated) = <<>>>>
            /\ UNCHANGED validate_out
    /\ results' = Append(results,
                         [call |-> call,
                          verdict |-> (IsObject(instance) =>
                                          Unevaluated(TheValidator, instance, evaluated) = <<>>),
                          errors |-> IF call = "validate" /\ IsObject(instance)
                                     THEN ValidateWith(TheValidator, instance, <<>>, evaluated)
                                     ELSE <<>>])
    /\ UNCHANGED <<parent, instance, phase, validators, iter_errors_out, evaluate_out>>
    /\ UNCHANGED <<cells, stack, evaluated, onceVars, cliVars, newVars, compileVars, rubyVars>>

NextLazy ==
    \/ Build
    \/ \E c \in {"is_valid", "validate"} : Enter(c)
    \/ NoReference
    \/ FollowDefault
    \/ GetOrInit
    \/ MarkAndReturn
    \/ Finish

SpecLazy == InitLazy /\ [][NextLazy]_vars

\* ------------------------------------------------ claims: lazy references
\* C3: validating any instance against a built schema whose references are
\* circular terminates: marking through lazy reference nodes follows a cycle
\* only a bounded number of times for one instance, so {"$ref": "#"} with
\* unevaluatedProperties never nests the marking until the stack is exhausted.
C3_CircularReferencesTerminate == call # "overflow"

\* ------------------------------------------------ state: repeated calls
\* How many calls one validator receives for the same instance.
MaxCalls == 3

\* An entry point called again on the same validator and instance.
Again(c) ==
    /\ phase = "built"
    /\ call = ""
    /\ c \in ran
    /\ Len(results) < MaxCalls
    /\ call' = c
    /\ evaluated' = {}
    /\ stack' = IF IsObject(instance)
                THEN <<[filter |-> TheValidator.filter, pc |-> "ref_"]>> ELSE <<>>
    /\ UNCHANGED <<evalVars, rubyVars, compileVars, cells, results, onceVars, cliVars, newVars>>

NextRepeat ==
    \/ Build
    \/ \E c \in {"is_valid", "validate"} : Enter(c)
    \/ \E c \in {"is_valid", "validate"} : Again(c)
    \/ NoReference
    \/ FollowDefault
    \/ GetOrInit
    \/ MarkAndReturn
    \/ Finish

SpecRepeat == InitLazy /\ [][NextRepeat]_vars

\* ------------------------------------------------- claims: repeated calls
\* C14: every call of the same entry point on the same validator and instance
\* returns the same verdict and the same errors; the call that fills a lazy
\* reference node returns what the later calls, which reuse it, return.
C14_RepeatedCallsAgree ==
    \A i, j \in 1..Len(results) :
        /\ results[i].verdict = results[j].verdict
        /\ results[i].call = results[j].call => results[i] = results[j]

\* C14's case: validate was called twice on an object that has a property; the
\* first call filled a lazy reference node.
C14_Witness ==
    /\ Len(results) >= 2
    /\ results[1].call = "validate"
    /\ results[2].call = "validate"
    /\ IsObject(instance)
    /\ len(instance) > 0
    /\ \E id \in 1..Len(cells) : cells[id].inner # <<>>

\* ------------------------------------------------------- state: the CLI
\* The most instance files on one command line.
MaxInstances == 2

InstanceFiles ==
    {f \in {File(e, o, t, v) : e \in {"json", "yaml", "yml"}, o \in BOOLEAN,
                               t \in {"json", "yaml", "garbage"}, v \in BOOLEAN} :
        /\ ~f.opens => f.text = "garbage" /\ f.ext = "json"
        /\ f.text = "garbage" => ~f.valid
        /\ f.ext = "yml" => f.opens /\ f.text = "yaml"}

\* The schema file, whether it satisfies the meta-schema its `$schema` (or the
\* default draft) selects and the one --draft selects, and whether its
\* references resolve.
SchemaFiles ==
    {sf \in [file : {File("json", o, t, TRUE) : o \in BOOLEAN, t \in {"json", "garbage"}},
             meta_valid : BOOLEAN, draft_valid : BOOLEAN, resolvable : BOOLEAN] :
        /\ ~sf.file.opens => sf.file.text = "garbage"
        /\ sf.file.text = "garbage" => sf.meta_valid /\ sf.draft_valid /\ sf.resolvable}

\* Cli::parse: --output, --errors-only, --draft, the schema path, and the
\* --instance paths (none, or at least one); --version is not given.
Configs ==
    {c \in [output : Outputs, errors_only : BOOLEAN, draft : {"none", "4"},
            schema : SchemaFiles, instances : SeqsUpTo(InstanceFiles, MaxInstances)] :
        c.draft = "none" => c.schema.draft_valid = c.schema.meta_valid}

InitCli ==
    /\ config \in Configs
    /\ cli = Run("main", 0, TRUE, "", <<>>, "none", <<>>)
    /\ parent = EmptyParent
    /\ instance = Scalar("str")
    /\ FreshValidator
    /\ NoNew
    /\ NoCompile /\ NoRuby

\* main without --instance: validate_schema_meta.
ValidateSchemaMeta ==
    /\ cli.pc = "main"
    /\ config.instances = <<>>
    /\ cli' = validate_schema_meta(config, cli)
    /\ UNCHANGED <<config, evalVars, rubyVars, compileVars, lazyVars, onceVars, newVars>>

\* main with --instance: validate_instances reads the schema and builds.
ValidateInstancesBuild ==
    /\ cli.pc = "main"
    /\ config.instances # <<>>
    /\ cli' = validate_instances_build(config, cli)
    /\ UNCHANGED <<config, evalVars, rubyVars, compileVars, lazyVars, onceVars, newVars>>

\* The loop of validate_instances: the next instance.
ValidateInstance ==
    /\ cli.pc = "loop"
    /\ cli' = validate_instance(config, cli)
    /\ UNCHANGED <<config, evalVars, rubyVars, compileVars, lazyVars, onceVars, newVars>>

\* main: the match on the result.
Exit ==
    /\ cli.pc = "return"
    /\ cli' = main_exit(config, cli)
    /\ UNCHANGED <<config, evalVars, rubyVars, compileVars, lazyVars, onceVars, newVars>>

NextCli == ValidateSchemaMeta \/ ValidateInstancesBuild \/ ValidateInstance \/ Exit

SpecCli == InitCli /\ [][NextCli]_vars

\* ------------------------------------------------------ claims: the CLI
Done == cli.pc = "done"

\* The schema file was read and parsed, and the run accepted the schema.
SchemaRead(cfg) == read_json(cfg.schema.file).status = "ok"
SchemaAccepted(cfg) ==
    /\ SchemaRead(cfg)
    /\ BuildSucceeds(cfg.schema, IF cfg.instances = <<>> THEN "none" ELSE cfg.draft)

\* The loop could read and parse the instance file.
InstanceRead(cfg, file) ==
    (IF cfg.output = "text" THEN read_json_or_yaml(file) ELSE read_json(file)).status = "ok"

AllInstancesRead(cfg) ==
    \A i \in 1..Len(cfg.instances) : InstanceRead(cfg, cfg.instances[i])

\* C15: the CLI exits with success iff the schema was accepted and every
\* instance was read and valid, and with failure otherwise (an invalid
\* instance, an invalid schema, a file that cannot be read or parsed); once an
\* instance was found invalid no later instance makes the run succeed.
C15_ExitCode ==
    /\ Done =>
          /\ cli.exit \in {"SUCCESS", "FAILURE"}
          /\ cli.exit = "SUCCESS" <=>
                /\ SchemaAccepted(config)
                /\ AllInstancesRead(config)
                /\ \A i \in 1..Len(config.instances) : config.instances[i].valid
    /\ (\E i \in 1..(cli.idx - 1) : ~config.instances[i].valid) =>
          ~cli.success /\ cli.exit # "SUCCESS"

\* C15's case: the first instance was invalid, the second valid, and the run
\* failed.
C15_Witness ==
    /\ Done
    /\ Len(config.instances) = 2
    /\ AllInstancesRead(config)
    /\ ~config.instances[1].valid
    /\ config.instances[2].valid
    /\ cli.idx = 3
    /\ cli.exit = "FAILURE"

\* C16: in a structured mode without --errors-only, with a schema that builds
\* and instances that are read and parsed, the CLI prints one record per
\* instance, in the order given, each with output (the mode), schema, instance
\* and payload, payload.valid being the verdict for that instance.
C16_OneRecordPerInstance ==
    (/\ Done
     /\ config.output \in Structured
     /\ ~config.errors_only
     /\ config.instances # <<>>
     /\ SchemaAccepted(config)
     /\ AllInstancesRead(config)) =>
        /\ Len(cli.stdout) = Len(config.instances)
        /\ \A i \in 1..Len(cli.stdout) :
              /\ cli.stdout[i].kind = "record"
              /\ cli.stdout[i].keys = {"output", "schema", "instance", "payload"}
              /\ cli.stdout[i].output = config.output
              /\ cli.stdout[i].instance = <<config.instances[i]>>
              /\ cli.stdout[i].valid = config.instances[i].valid

\* C16's case: two different instances, the first invalid, in list mode.
C16_Witness ==
    /\ Done
    /\ config.output = "list"
    /\ ~config.errors_only
    /\ SchemaAccepted(config)
    /\ Len(config.instances) = 2
    /\ AllInstancesRead(config)
    /\ ~config.instances[1].valid
    /\ config.instances[2].valid
    /\ Len(cli.stdout) = 2

\* C17: in every output mode an instance file with the extension yaml or yml
\* is given to the YAML parser and every other instance file to the JSON parser.
C17_ParserByExtension ==
    \A k \in 1..Len(cli.parsed) :
        cli.parsed[k].parser =
            IF config.instances[cli.parsed[k].idx].ext \in {"yaml", "yml"}
            THEN "yaml" ELSE "json"

\* The schema does not satisfy the meta-schema of the draft in force.
FailsMetaSchema(cfg) ==
    /\ SchemaRead(cfg)
    /\ ~(IF cfg.draft = "none" THEN cfg.schema.meta_valid ELSE cfg.schema.draft_valid)

\* C18: when the schema fails meta-schema validation, a structured mode prints
\* exactly one record, with the mode as output and payload.valid false and
\* without an instance, and the run exits with failure, with or without
\* instances and with or without --errors-only.
C18_InvalidSchemaRecord ==
    (Done /\ config.output \in Structured /\ FailsMetaSchema(config)) =>
        /\ cli.stdout = <<Line("record", config.output, <<>>, FALSE)>>
        /\ cli.exit = "FAILURE"

\* The same command line without --errors-only, run to its end.
WithoutErrorsOnly(cfg) == [cfg EXCEPT !.errors_only = FALSE]
ReferenceRun(cfg) ==
    CliRun(WithoutErrorsOnly(cfg), Run("main", 0, TRUE, "", <<>>, "none", <<>>))

\* C19: with --errors-only the CLI prints what it prints without the flag
\* except the lines for valid instances and for a valid schema, which it does
\* not print; the exit code is the one of the run without the flag.
C19_ErrorsOnlyFrame ==
    (Done /\ config.errors_only) =>
        /\ cli.stdout = SelectSeq(ReferenceRun(config).stdout, LAMBDA l : ~l.valid)
        /\ cli.exit = ReferenceRun(config).exit

\* C19's case: with --errors-only, a valid and an invalid instance were
\* validated and one line was printed.
C19_Witness ==
    /\ Done
    /\ config.errors_only
    /\ Len(config.instances) = 2
    /\ config.instances[1].valid
    /\ ~config.instances[2].valid
    /\ cli.idx = 3
    /\ Len(cli.stdout) = 1
    /\ Len(ReferenceRun(config).stdout) = 2

\* ---------------------------------------- state: building the filter
Targets == {"#", "#/$defs/a"}

\* Documents with unevaluatedProperties at the root, whose root and whose
\* definition `a` each hold any of `$ref`, `$dynamicRef`, `$recursiveRef`,
\* under Draft 2019-09 and 2020-12; `seen` is what the compiler had marked
\* when it reached unevaluatedProperties.
Documents ==
    [draft : {"Draft201909", "Draft202012"},
     root : {References(r, d, rr) : r \in Targets \cup {""}, d \in Targets \cup {""},
                                    rr \in BOOLEAN},
     a : {References(r, d, rr) : r \in Targets \cup {""}, d \in Targets \cup {""},
                                 rr \in BOOLEAN},
     seen : SUBSET Targets]

InitNew ==
    /\ doc \in Documents
    /\ news = <<>>
    /\ seen = {}
    /\ building = "idle"
    /\ parent = EmptyParent
    /\ instance = Scalar("str")
    /\ FreshValidator
    /\ NoRun
    /\ NoCompile /\ NoRuby

\* ctx.lookup(reference).contents() in the document.
Resolved(reference) == IF reference = "#" THEN doc.root ELSE doc.a

\* unevaluated_properties::compile: the filter of the draft.
FilterKind ==
    IF doc.draft = "Draft201909" THEN "Draft2019PropertiesFilter"
    ELSE "DefaultPropertiesFilter"

\* The innermost call of new and the schema object it was given.
TopNew == news[Len(news)]

\* Self::new(ctx, subschema) from inside new: the caller resumes at `resume`;
\* the call does not fit when the stack is exhausted.
NestNew(subschema, resume) ==
    IF Len(news) < StackLimit
    THEN /\ news' = Append([news EXCEPT ![Len(news)].pc = resume],
                           [parent |-> subschema, pc |-> "$ref"])
         /\ building' = building
    ELSE /\ news' = news
         /\ building' = "overflow"

\* UnevaluatedPropertiesValidator::compile: F::new(ctx, parent) for the root.
CompileFilter ==
    /\ building = "idle"
    /\ building' = "new"
    /\ news' = <<[parent |-> doc.root, pc |-> "$ref"]>>
    /\ seen' = doc.seen
    /\ UNCHANGED <<doc, evalVars, rubyVars, compileVars, lazyVars, onceVars, cliVars>>

\* new: no `$ref` in the schema object.
NewWithoutRef ==
    /\ building = "new"
    /\ TopNew.pc = "$ref"
    /\ TopNew.parent.ref = ""
    /\ news' = [news EXCEPT ![Len(news)].pc = "$dynamicRef"]
    /\ UNCHANGED <<doc, seen, building, evalVars, rubyVars, compileVars, lazyVars, onceVars, cliVars>>

\* DefaultPropertiesFilter::new: a `$ref` whose target is being compiled
\* becomes ReferenceFilter::Recursive, a lazy reference.
NewLazyRef ==
    /\ building = "new"
    /\ TopNew.pc = "$ref"
    /\ TopNew.parent.ref # ""
    /\ FilterKind = "DefaultPropertiesFilter"
    /\ is_circular_reference([seen |-> seen], TopNew.parent.ref)
    /\ news' = [news EXCEPT ![Len(news)].pc = "$dynamicRef"]
    /\ UNCHANGED <<doc, seen, building, evalVars, rubyVars, compileVars, lazyVars, onceVars, cliVars>>

\* new: the filter of the `$ref` target is built in place. The default
\* filter marks the reference as seen first; the 2019-09 filter asks nothing.
NewNestedRef ==
    /\ building = "new"
    /\ TopNew.pc = "$ref"
    /\ TopNew.parent.ref # ""
    /\ IF FilterKind = "DefaultPropertiesFilter"
       THEN /\ ~is_circular_reference([seen |-> seen], TopNew.parent.ref)
            /\ seen' = mark_seen([seen |-> seen], TopNew.parent.ref).seen
       ELSE seen' = seen
    /\ NestNew(Resolved(TopNew.parent.ref), "$dynamicRef")
    /\ UNCHANGED <<doc, evalVars, rubyVars, compileVars, lazyVars, onceVars, cliVars>>

\* new: no `$dynamicRef` (default filter) or `$recursiveRef` (2019-09 filter).
NewWithoutDynamicRef ==
    /\ building = "new"
    /\ TopNew.pc = "$dynamicRef"
    /\ IF FilterKind = "DefaultPropertiesFilter"
       THEN TopNew.parent.dynamic_ref = "" ELSE ~TopNew.parent.recursive_ref
    /\ news' = [news EXCEPT ![Len(news)].pc = "rest"]
    /\ UNCHANGED <<doc, seen, building, evalVars, rubyVars, compileVars, lazyVars, onceVars, cliVars>>

\* Draft2019PropertiesFilter::new: `$recursiveRef` becomes LazyReference::new(ctx).
NewLazyRecursiveRef ==
    /\ building = "new"
    /\ TopNew.pc = "$dynamicRef"
    /\ FilterKind = "Draft2019PropertiesFilter"
    /\ TopNew.parent.recursive_ref
    /\ news' = [news EXCEPT ![Len(news)].pc = "rest"]
    /\ UNCHANGED <<doc, seen, building, evalVars, rubyVars, compileVars, lazyVars, onceVars, cliVars>>

\* DefaultPropertiesFilter::new: the filter of the `$dynamicRef` target is
\* built in place.
NewNestedDynamicRef ==
    /\ building = "new"
    /\ TopNew.pc = "$dynamicRef"
    /\ FilterKind = "DefaultPropertiesFilter"
    /\ TopNew.parent.dynamic_ref # ""
    /\ NestNew(Resolved(TopNew.parent.dynamic_ref), "rest")
    /\ UNCHANGED <<doc, seen, evalVars, rubyVars, compileVars, lazyVars, onceVars, cliVars>>

\* new: the remaining keywords, and Ok(filter).
NewReturns ==
    /\ building = "new"
    /\ TopNew.pc = "rest"
    /\ news' = SubSeq(news, 1, Len(news) - 1)
    /\ building' = IF Len(news) = 1 THEN "built" ELSE building
    /\ UNCHANGED <<doc, seen, evalVars, rubyVars, compileVars, lazyVars, onceVars, cliVars>>

NextNew ==
    \/ CompileFilter
    \/ NewWithoutRef
    \/ NewLazyRef
    \/ NewNestedRef
    \/ NewWithoutDynamicRef
    \/ NewLazyRecursiveRef
    \/ NewNestedDynamicRef
    \/ NewReturns

SpecNew == InitNew /\ [][NextNew]_vars

\* --------------------------------------- claims: building the filter
\* C20: building the evaluated-properties filter terminates for every schema
\* whose `$ref`, `$recursiveRef` or `$dynamicRef` chain is cyclic, under the
\* 2019-09 filter and the default filter: a reference to a schema that is
\* being compiled becomes a lazy reference, so new never nests until the
\* stack is exhausted.
C20_FilterConstructionTerminates == building # "overflow"

\* ------------------------------------- state: one lazy node, many threads
\* A schema whose filter holds a lazy reference node, shared by the threads.
InitOnce ==
    /\ parent = [EmptyParent EXCEPT
                    !.keys = {"unevaluatedProperties", "$defs", "$ref"},
                    !.ref = "#/$defs/a", !.defs = <<DefA>>, !.seen = {"#/$defs/a"},
                    !.unevaluatedProperties = "false"]
    /\ instance = Object(<<>>)
    /\ Fresh

\* OnceLock::get_or_init, fast path (OnceLock::get): a thread that finds the
\* cell initialized returns its value, any other goes on to initialize.
Get(t) ==
    /\ tpc[t] = "idle"
    /\ observed' = [observed EXCEPT ![t] = inner.state]
    /\ IF inner.state = "complete"
       THEN /\ got' = [got EXCEPT ![t] = inner.value]
            /\ tpc' = [tpc EXCEPT ![t] = "done"]
       ELSE /\ got' = got
            /\ tpc' = [tpc EXCEPT ![t] = "initialize"]
    /\ UNCHANGED <<newVars, cliVars, evalVars, rubyVars, compileVars, lazyVars, inner, compiled, writes, waited>>

\* A variant that decides on what the fast path showed the thread earlier.
WinsInitialization_Stale(t) == observed[t] = "incomplete"
\* The thread takes the cell from incomplete to running: one atomic step of
\* the Once behind the OnceLock, so one thread at most.
WinsInitialization(t) == inner.state = "incomplete"

\* OnceLock::initialize: the winner goes on to run the closure, a thread that
\* arrives while another is initializing blocks, a late one reads the value.
Initialize(t) ==
    /\ tpc[t] = "initialize"
    /\ IF WinsInitialization(t)
       THEN /\ inner' = [inner EXCEPT !.state = "running"]
            /\ tpc' = [tpc EXCEPT ![t] = "closure"]
            /\ waited' = waited
       ELSE IF inner.state = "running"
       THEN /\ tpc' = [tpc EXCEPT ![t] = "wait"]
            /\ waited' = waited \cup {t}
            /\ inner' = inner
       ELSE /\ tpc' = [tpc EXCEPT ![t] = "read"]
            /\ UNCHANGED <<inner, waited>>
    /\ UNCHANGED <<newVars, cliVars, evalVars, rubyVars, compileVars, lazyVars, observed, got, compiled, writes>>

\* The closure of get_or_init: compile the filter of the resource; the box it
\* yields is the thread's own.
Closure(t) ==
    /\ tpc[t] = "closure"
    /\ compiled' = compiled \cup {t}
    /\ tpc' = [tpc EXCEPT ![t] = "store"]
    /\ UNCHANGED <<newVars, cliVars, evalVars, rubyVars, compileVars, lazyVars, inner, observed, got, writes, waited>>

\* The value of the closure is stored and the cell completes.
Store(t) ==
    /\ tpc[t] = "store"
    /\ inner' = [state |-> "complete", value |-> t]
    /\ writes' = writes + 1
    /\ tpc' = [tpc EXCEPT ![t] = "read"]
    /\ UNCHANGED <<newVars, cliVars, evalVars, rubyVars, compileVars, lazyVars, observed, got, compiled, waited>>

\* A blocked thread is woken when the cell completes.
Wake(t) ==
    /\ tpc[t] = "wait"
    /\ inner.state = "complete"
    /\ tpc' = [tpc EXCEPT ![t] = "read"]
    /\ UNCHANGED <<newVars, cliVars, evalVars, rubyVars, compileVars, lazyVars, inner, observed, got, compiled, writes, waited>>

\* get_or_init returns a reference to the stored value.
Read(t) ==
    /\ tpc[t] = "read"
    /\ got' = [got EXCEPT ![t] = inner.value]
    /\ tpc' = [tpc EXCEPT ![t] = "done"]
    /\ UNCHANGED <<newVars, cliVars, evalVars, rubyVars, compileVars, lazyVars, inner, observed, compiled, writes, waited>>

NextOnce ==
    \E t \in Threads :
        \/ Get(t)
        \/ Initialize(t)
        \/ Closure(t)
        \/ Store(t)
        \/ Wake(t)
        \/ Read(t)

SpecOnce == InitOnce /\ [][NextOnce]_vars

\* -------------------------------------------- claims: lazy node, threads
\* C4: for any interleaving of threads reaching the same lazy reference node,
\* its subschema is compiled and stored at most once, the stored value never
\* changes afterwards, and every caller, one that arrives during the
\* initialization included, proceeds only with that one stored value.
C4_LazyNodeWrittenOnce ==
    /\ Cardinality(compiled) <= 1
    /\ writes <= 1
    /\ inner.state = "complete" => inner.value \in compiled
    /\ \A t \in Threads :
          tpc[t] = "done" => inner.state = "complete" /\ got[t] = inner.value

\* C4's case: every thread has its value, one of them after blocking while
\* another was initializing, one through the fast path.
C4_Witness ==
    /\ \A t \in Threads : tpc[t] = "done"
    /\ waited # {}
    /\ \E t \in Threads : observed[t] = "complete"
    /\ writes = 1

\* ------------------------------------------------ state: the first error
\* The schemas of `required`, of `properties` beside `required`, and of
\* `items` / `prefixItems`, each with its instances.
InitFirst == InitObject \/ InitItems

SpecFirst == InitFirst /\ [][NextEval]_vars

\* ----------------------------------------------- claims: the first error
FirstErrorVariants ==
    RequiredVariants \cup TypedItemsVariants
        \cup {"ItemsArrayValidator", "ItemsObjectValidator",
              "ItemsObjectSkipPrefixValidator", "PrefixItemsValidator"}

\* C21: for the `required`, fused properties+required, `items` (all forms) and
\* `prefixItems` validators and every instance, validate fails exactly when
\* iter_errors yields something, and the error validate returns is the first
\* error iter_errors yields (same kind, same instance location, same payload).
C21_ValidateReturnsFirstError ==
    {"validate", "iter_errors"} \subseteq ran =>
        \A i \in 1..Len(validators) :
            validators[i].variant \in FirstErrorVariants =>
                /\ (validate_out[i] # <<>>) <=> (iter_errors_out[i] # <<>>)
                /\ validate_out[i] # <<>> => validate_out[i][1] = iter_errors_out[i][1]

\* C21's case: the 3-name validator lacks its second and third names; validate
\* returned the error of the second, the first of the two iter_errors yields.
C21_Witness ==
    /\ {"validate", "iter_errors"} \subseteq ran
    /\ \E i \in 1..Len(validators) :
          /\ validators[i].variant = "Required3Validator"
          /\ Len(iter_errors_out[i]) = 2
          /\ validate_out[i] = <<iter_errors_out[i][1]>>
          /\ validate_out[i][1].payload = validators[i].required[2]

\* --------------------------------------- claims: prefixItems beside items
\* `prefixItems` is an array of schemas and `items` one subschema.
PrefixAndItemsCase(p) ==
    /\ "prefixItems" \in p.keys /\ p.prefixItems.form = "array"
    /\ "items" \in p.keys /\ p.items.form \in {"object", "false"}

\* The one subschema that answers for index k - 1: prefix subschema k - 1
\* below the length of `prefixItems`, the `items` subschema from there on.
Designated(p, k) ==
    IF k <= Len(p.prefixItems.schemas)
    THEN CompileSchemas(p.prefixItems.schemas, p.location, "prefixItems", p.draft)[k]
    ELSE SchemaNode(p.items.schemas[1].type, p.location \o <<"items">>, p.draft)

DesignatedErrors(p, inst) ==
    Flatten([k \in 1..Len(inst.elems) |->
                SchemaNode_iter_errors(Designated(p, k), inst.elems[k], <<k - 1>>)])

\* Every index is answered for by its designated subschema and by no other,
\* in the four entry points.
EachIndexByItsSubschema ==
    LET n == Len(instance.elems)
        expected == DesignatedErrors(parent, instance)
    IN /\ "is_valid" \in ran =>
             ((\A i \in 1..Len(validators) : is_valid_out[i])
                 <=> \A k \in 1..n :
                        SchemaNode_is_valid(Designated(parent, k), instance.elems[k]))
       /\ "iter_errors" \in ran => Flatten(iter_errors_out) = expected
       /\ "validate" \in ran =>
             /\ (Flatten(validate_out) = <<>>) <=> (expected = <<>>)
             /\ \A j \in 1..Len(Flatten(validate_out)) :
                   \E e \in 1..Len(expected) : Flatten(validate_out)[j] = expected[e]
       /\ "evaluate" \in ran =>
             Flatten([i \in 1..Len(validators) |-> evaluate_out[i].children])
                = [k \in 1..n |->
                      SchemaNode_evaluate_instance(Designated(parent, k), instance.elems[k],
                                                   <<k - 1>>)]

\* C22 as stated, for the schema objects of every draft.
C22_EachIndexByOneKeyword ==
    (phase = "built" /\ PrefixAndItemsCase(parent) /\ IsArray(instance))
        => EachIndexByItsSubschema

\* C22, under Draft 2020-12: with `prefixItems` of n subschemas and an `items`
\* subschema, each index i < n of an array is validated by prefix subschema i
\* only and each index i >= n by the `items` subschema only, none by both or by
\* neither, in is_valid, validate, iter_errors and evaluate alike.
C22_EachIndexByOneKeyword_Draft202012 ==
    (phase = "built" /\ PrefixAndItemsCase(parent) /\ IsArray(instance)
        /\ parent.draft = "Draft202012")
        => EachIndexByItsSubschema

\* C22's case: two prefix subschemas and `items`, an array of three elements
\* of which the first fails its prefix subschema and the third fails `items`.
C22_Witness ==
    /\ PrefixAndItemsCase(parent) /\ parent.draft = "Draft202012"
    /\ Len(parent.prefixItems.schemas) = 2
    /\ {"is_valid", "validate", "iter_errors", "evaluate"} \subseteq ran
    /\ IsArray(instance) /\ Len(instance.elems) = 3
    /\ {e.instance_location : e \in {Flatten(iter_errors_out)[j] :
                                        j \in 1..Len(Flatten(iter_errors_out))}}
          = {<<0>>, <<2>>}
    /\ Len(evaluate_out[1].children) = 2 /\ Len(evaluate_out[2].children) = 1

\* ------------------------------ claims: oneOf and if/then/else in the filter
\* The properties of the object a subschema evaluates: those its `properties`
\* names and whose value is valid against the entry; none for `true`.
EvaluatedBy(subschema, inst) ==
    IF subschema = <<>> \/ "properties" \notin subschema[1].keys THEN {}
    ELSE {inst.props[i].name : i \in
            {j \in 1..Len(inst.props) :
                \E k \in 1..Len(subschema[1].properties) :
                    /\ subschema[1].properties[k].name = inst.props[j].name
                    /\ TypeMatches(subschema[1].properties[k].type, subschema[1].draft,
                                   inst.props[j].value)}}

\* What validate of unevaluatedProperties: false returns for the object when
\* exactly the properties of `marked` are evaluated.
ReportsAllBut(marked, inst) ==
    LET left == SelectSeq(inst.props, LAMBDA q : q.name \notin marked)
    IN IF left = <<>> THEN validate_out[UnevaluatedIndex] = <<>>
       ELSE /\ validate_out[UnevaluatedIndex] # <<>>
            /\ validate_out[UnevaluatedIndex][1].payload
                  = [i \in 1..Len(left) |-> left[i].name]

\* The schema: oneOf and unevaluatedProperties: false, nothing else.
OneOfCase(p) == p.keys = {"oneOf", "unevaluatedProperties"} /\ p.unevaluatedProperties = "false"

\* C23: properties are marked evaluated through oneOf only when exactly one
\* branch is valid for the instance, and then only the properties evaluated by
\* that one branch; with zero or with two or more valid branches nothing is
\* marked through oneOf.
C23_OneOfMarksThroughTheOneValidBranch ==
    (OneOfCase(parent) /\ "validate" \in ran /\ instance.kind = "object") =>
        LET satisfied == {k \in 1..Len(parent.oneOf) :
                             BranchSatisfied(parent.oneOf[k], instance)}
        IN ReportsAllBut(IF Cardinality(satisfied) = 1
                         THEN EvaluatedBy(<<parent.oneOf[CHOOSE k \in satisfied : TRUE]>>,
                                          instance)
                         ELSE {},
                         instance)

\* The schema: if, then / else and unevaluatedProperties: false, nothing else.
ConditionalCase(p) == "if" \in p.keys /\ p.unevaluatedProperties = "false"

\* C24: whenever the instance satisfies `if` (whatever form the `if` subschema
\* has), the properties evaluated by `if` and by `then` are marked evaluated
\* and none through `else`; whenever it does not satisfy `if`, only the
\* properties evaluated by `else` are marked.
C24_ConditionalMarksIfThenOrElse ==
    (ConditionalCase(parent) /\ "validate" \in ran /\ instance.kind = "object") =>
        ReportsAllBut(IF BranchSatisfied(parent.if_[1], instance)
                      THEN EvaluatedBy(parent.if_, instance)
                              \cup EvaluatedBy(parent.then_, instance)
                      ELSE EvaluatedBy(parent.else_, instance),
                      instance)

\* ------------------------------- claims: a lazy reference that cannot compile
\* C25: if compiling the target of a lazy reference fails on its first use
\* during a validation call, the failure reaches the caller as a returned
\* verdict or validation error: the call is never aborted by a panic, and the
\* lazy node is not left half-initialized.
C25_LazyCompileFailureIsReturned ==
    /\ call # "panic"
    /\ \A id \in 1..Len(cells) : Len(cells[id].inner) <= 1

\* --------------------------------------------- claims: evaluate and required
\* C26: when evaluate runs the fused properties+required validator on an
\* object that lacks one of the two required names, the invalid result it
\* returns carries an error describing the missing required property, as the
\* unfused `required` keyword would; an invalid result never has an empty
\* error list.
C26_FusedEvaluateReportsMissing ==
    ("evaluate" \in ran /\ IsObject(instance)) =>
        \A i \in 1..Len(validators) :
            (/\ validators[i].variant = "SmallPropertiesWithRequired2Validator"
             /\ \E k \in 1..2 : ~contains_key(instance, validators[i].required[k])) =>
                LET unfused == Validate_default_evaluate(
                                   Required2Validator_iter_errors(validators[i], instance, <<>>))
                IN /\ ~evaluate_out[i].valid
                   /\ evaluate_out[i].errors # <<>>
                   /\ \A e \in 1..Len(unfused.errors) :
                         \E f \in 1..Len(evaluate_out[i].errors) :
                             /\ evaluate_out[i].errors[f].kind = "Required"
                             /\ evaluate_out[i].errors[f].payload = unfused.errors[e].payload

\* ------------------------------------------------ compiling `required`
\* The serde_json values a `required` keyword can hold: a string carries its
\* text, an array its items; the other kinds carry nothing.
JsonString(text) == [kind |-> "str", text |-> text, items |-> <<>>]
JsonOther(k) == [kind |-> k, text |-> "", items |-> <<>>]
JsonArray(items) == [kind |-> "array", text |-> "", items |-> items]

\* Option<CompilationResult>: None, Some(Ok(validator)) or Some(Err(error)).
CompilationResult_None ==
    [tag |-> "None", variant |-> "", required |-> <<>>, error |-> <<>>]
CompilationResult_Ok(variant, names) ==
    [tag |-> "Ok", variant |-> variant, required |-> names, error |-> <<>>]
CompilationResult_Err(location, item, type) ==
    [tag |-> "Err", variant |-> "", required |-> <<>>,
     error |-> <<ValidationError_single_type_error(location, <<>>, item, type)>>]

\* RequiredValidator::compile: pushes the strings in order and returns the
\* Type error of the first item that is not a string.
RECURSIVE RequiredValidator_compile(_, _, _)
RequiredValidator_compile(items, names, location) ==
    IF items = <<>> THEN CompilationResult_Ok("RequiredValidator", names)
    ELSE IF Head(items).kind = "str"
    THEN RequiredValidator_compile(Tail(items), Append(names, Head(items).text), location)
    ELSE CompilationResult_Err(location, Head(items), "string")

\* required::compile_with_path.
compile_with_path(schema, location) ==
    IF schema.kind # "array" THEN CompilationResult_Err(location, schema, "array")
    ELSE LET items == schema.items
             IsStr(i) == items[i].kind = "str"
         IN CASE Len(items) = 1 ->
                    IF IsStr(1)
                    THEN CompilationResult_Ok("SingleItemRequiredValidator", <<items[1].text>>)
                    ELSE CompilationResult_Err(location, items[1], "string")
              [] Len(items) = 2 ->
                    IF IsStr(1) /\ IsStr(2)
                    THEN CompilationResult_Ok("Required2Validator",
                                              <<items[1].text, items[2].text>>)
                    ELSE IF IsStr(1)
                    THEN CompilationResult_Err(location, items[2], "string")
                    ELSE CompilationResult_Err(location, items[1], "string")
              [] Len(items) = 3 ->
                    IF IsStr(1) /\ IsStr(2) /\ IsStr(3)
                    THEN CompilationResult_Ok("Required3Validator",
                             <<items[1].text, items[2].text, items[3].text>>)
                    ELSE IF IsStr(1) /\ IsStr(2)
                    THEN CompilationResult_Err(location, items[3], "string")
                    ELSE IF IsStr(1)
                    THEN CompilationResult_Err(location, items[2], "string")
                    ELSE CompilationResult_Err(location, items[1], "string")
              [] OTHER -> RequiredValidator_compile(items, <<>>, location)

\* required::compile: a `required` of one item next to `properties` and
\* `additionalProperties: false`, without `patternProperties`, is left to the
\* fused validator and compiles to nothing here, whatever the item is.
compile(ctx_location, siblings, schema) ==
    IF /\ schema.kind = "array"
       /\ Len(schema.items) = 1
       /\ siblings.additionalProperties = "false"
       /\ siblings.properties
       /\ ~siblings.patternProperties
    THEN CompilationResult_None
    ELSE compile_with_path(schema, ctx_location \o <<"required">>)

\* The values of `required` drawn: every kind that is not an array, and the
\* arrays of up to MaxRequired items over two names and two non-strings.
RequiredItems == {JsonString("a"), JsonString("b"), JsonOther("int"), JsonOther("null")}
RequiredSchemas ==
    {JsonOther(k) : k \in {"null", "bool", "int", "object"}}
      \cup {JsonString("a")}
      \cup {JsonArray(items) : items \in SeqsUpTo(RequiredItems, MaxRequired)}
RequiredSiblings ==
    [properties : BOOLEAN, patternProperties : BOOLEAN,
     additionalProperties : {"absent", "false", "true", "object"}]

InitRequired ==
    /\ FreshValidator /\ NoRun /\ NoNew /\ NoRuby
    /\ parent = EmptyParent
    /\ instance = Scalar("null")
    /\ required_schema \in RequiredSchemas
    /\ required_parent \in RequiredSiblings
    /\ required_result = [tag |-> "Pending", variant |-> "", required |-> <<>>, error |-> <<>>]

\* The compiler reaches the `required` keyword of the schema object.
CompileRequired ==
    /\ required_result.tag = "Pending"
    /\ required_result' = compile(<<>>, required_parent, required_schema)
    /\ UNCHANGED <<required_schema, required_parent>>
    /\ UNCHANGED <<evalVars, rubyVars, lazyVars, onceVars, cliVars, newVars>>

NextRequired == CompileRequired

SpecRequired == InitRequired /\ [][NextRequired]_vars

\* The first item of `items` that is not a string, 0 when all are strings.
FirstNonString(items) ==
    IF \A i \in 1..Len(items) : items[i].kind = "str" THEN 0
    ELSE CHOOSE i \in 1..Len(items) :
             /\ items[i].kind # "str"
             /\ \A j \in 1..(i - 1) : items[j].kind = "str"

\* C27: compiling `required` yields a Type error expecting an array when its
\* value is not an array, a Type error expecting a string for the first
\* non-string item when the array has one, for every array length and
\* whatever sibling keywords the schema has; otherwise it yields a validator.
C27_RequiredCompileTypeErrors ==
    required_result.tag \notin {"Idle", "Pending"} =>
        LET location == <<"required">>
        IN IF required_schema.kind # "array"
           THEN required_result = CompilationResult_Err(location, required_schema, "array")
           ELSE IF FirstNonString(required_schema.items) # 0
           THEN required_result =
                    CompilationResult_Err(location,
                        required_schema.items[FirstNonString(required_schema.items)],
                        "string")
           ELSE required_result.tag = "Ok"

\* The same, for the schemas whose `required` is not left to the fused validator.
C27_RequiredCompileTypeErrors_Unfused ==
    (/\ required_result.tag \notin {"Idle", "Pending"}
     /\ ~(/\ required_schema.kind = "array"
          /\ Len(required_schema.items) = 1
          /\ required_parent.additionalProperties = "false"
          /\ required_parent.properties
          /\ ~required_parent.patternProperties)) =>
        C27_RequiredCompileTypeErrors

\* ------------------------------------------------------- the Ruby binding
\* jsonschema-rb: the module-level functions (valid?, validate!, each_error,
\* evaluate), validator_for with the methods of the Validator it returns, and
\* Registry.new, as calls on one Ruby thread.  A call is a frame on rb_stack;
\* Ruby code (a format checker, a custom keyword, a block) may call the
\* binding again, which pushes a frame.

\* Most calls of the binding begun in one behaviour, nested ones included.
MaxRubyCalls == 3
\* Deepest nesting of calls of the binding (a callback that calls it again).
MaxDepth == 2

\* The keyword arguments that carry callbacks.
Kwargs ==
    [formats : {"none", "empty", "procs", "uncallable"},
     keywords : {"none", "empty", "classes", "invalid"},
     retriever : {"none", "proc", "invalid"},
     registry : {"none", "plain", "with_retriever"}]
NoKwargs ==
    [formats |-> "none", keywords |-> "none", retriever |-> "none", registry |-> "none"]
\* The keyword arguments of the calls Ruby callbacks make.
NestedKwargs == {NoKwargs, [NoKwargs EXCEPT !.formats = "procs"]}

OneOff == {"valid?", "validate!", "each_error", "evaluate"}
Methods == {"Validator#valid?", "Validator#validate!", "Validator#each_error",
            "Validator#evaluate"}

\* The address handed to register_address: the slot of `value` in the
\* collection `owner` of call `id`.
Address(owner, id, value) == [owner |-> owner, call |-> id, value |-> value]

\* has_ruby_callbacks of make_options_from_kwargs: set in the body of the loops
\* over `formats` and over `keywords`, so by the first entry of either.
has_ruby_callbacks_FormatsOnly(kw) == kw.formats \in {"procs", "uncallable"}
has_ruby_callbacks(kw) ==
    \/ kw.formats \in {"procs", "uncallable"}
    \/ kw.keywords \in {"classes", "invalid"}

\* make_options_from_kwargs: the retriever, the registry's retriever when no
\* retriever was given, the format checkers, the keyword classes, in that
\* order; each callback is added to compilation_roots (register_address) and
\* pushed to callback_roots; the first invalid argument returns Err.
make_options_from_kwargs(kw) ==
    LET retriever == IF kw.retriever = "proc" THEN <<"retriever">> ELSE <<>>
        from_registry ==
            IF kw.registry = "with_retriever" /\ kw.retriever = "none"
            THEN <<"registry_retriever">> ELSE <<>>
        formats == IF kw.formats = "procs" THEN <<"format">> ELSE <<>>
        keywords == IF kw.keywords = "classes" THEN <<"keyword_class">> ELSE <<>>
    IN IF kw.retriever = "invalid"
       THEN [ok |-> FALSE, has_ruby_callbacks |-> FALSE, roots |-> <<>>]
       ELSE IF kw.formats = "uncallable"
       THEN [ok |-> FALSE, has_ruby_callbacks |-> has_ruby_callbacks(kw),
             roots |-> retriever \o from_registry]
       ELSE IF kw.keywords = "invalid"
       THEN [ok |-> FALSE, has_ruby_callbacks |-> has_ruby_callbacks(kw),
             roots |-> retriever \o from_registry \o formats]
       ELSE [ok |-> TRUE, has_ruby_callbacks |-> has_ruby_callbacks(kw),
             roots |-> retriever \o from_registry \o formats \o keywords]

\* The Ruby callbacks the built jsonschema::Validator calls while it validates:
\* its format checkers and the instances of its custom keywords.
RuntimeCallbacks(kw) ==
    (IF kw.formats = "procs" THEN {"format"} ELSE {})
      \cup (IF kw.keywords = "classes" THEN {"keyword_instance"} ELSE {})

Range(s) == {s[i] : i \in 1..Len(s)}

\* A call of the binding that has just been entered.
RubyFrame(fn, block, kw, id) ==
    [fn |-> fn, block |-> block, kw |-> kw, id |-> id,
     pc |-> IF fn = "Registry.new" THEN "registry" ELSE IF fn \in Methods THEN "run"
            ELSE "options",
     has_ruby_callbacks |-> FALSE,  \* parsed.has_ruby_callbacks / rb_self.has_ruby_callbacks
     callbacks |-> {},              \* the callbacks the validator can call at run time
     roots |-> <<>>,                \* callback_roots
     comp |-> {},                   \* the addresses compilation_roots has registered
     guard |-> {},                  \* those of CallbackRootGuard or RetrieverBuildRootGuard
     silent |-> FALSE,              \* a SuppressPanicGuard of this call is alive
     nogvl |-> FALSE,               \* the call is inside without_gvl
     invoked_gvl |-> "",            \* the GVL when the running callback was invoked
     caught |-> "",                 \* how the last catch_unwind_silent returned
     result |-> ""]

InitRuby ==
    /\ FreshValidator /\ NoRun /\ NoNew /\ NoCompile
    /\ parent = EmptyParent
    /\ instance = Scalar("null")
    /\ rb_stack = <<>>
    /\ gvl = "held"
    /\ SUPPRESS_PANIC_OUTPUT = FALSE
    /\ registered = {}
    /\ gc_misuse = FALSE
    /\ rb_calls = 0
    /\ validator_obj = NoValidator

RbTop == rb_stack[Len(rb_stack)]
SetRbTop(frame) == [rb_stack EXCEPT ![Len(rb_stack)] = frame]
RbAt(pcs) == rb_stack # <<>> /\ RbTop.pc \in pcs

\* register_address and unregister_address for a set of addresses.
Register(addresses) ==
    /\ registered' = registered \cup addresses
    /\ gc_misuse' = (gc_misuse \/ addresses \cap registered # {})
Unregister(addresses) ==
    /\ registered' = registered \ addresses
    /\ gc_misuse' = (gc_misuse \/ ~(addresses \subseteq registered))

\* Ruby code calls the binding: the main program, or a callback or block that
\* runs while an outer call waits for it.
RubyCall ==
    /\ rb_calls < MaxRubyCalls
    /\ Len(rb_stack) < MaxDepth
    /\ IF rb_stack = <<>> THEN TRUE
       ELSE RbTop.pc \in {"callback", "yield"} /\ gvl = "held"
    /\ \E fn \in OneOff \cup Methods \cup {"validator_for", "Registry.new"},
          block \in BOOLEAN, kw \in Kwargs :
        /\ block => fn \in {"each_error", "Validator#each_error"}
        /\ rb_stack # <<>> => kw \in NestedKwargs
        /\ fn = "validator_for" => ~validator_obj.exists
        /\ fn = "Registry.new" =>
               kw.formats = "none" /\ kw.keywords = "none" /\ kw.registry = "none"
        /\ fn \in Methods => validator_obj.exists /\ kw = NoKwargs
        /\ rb_stack' = Append(rb_stack,
               IF fn \in Methods
               THEN [RubyFrame(fn, block, kw, rb_calls + 1) EXCEPT
                        !.has_ruby_callbacks = validator_obj.has_ruby_callbacks,
                        !.callbacks = validator_obj.callbacks]
               ELSE RubyFrame(fn, block, kw, rb_calls + 1))
    /\ rb_calls' = rb_calls + 1
    /\ UNCHANGED <<gvl, SUPPRESS_PANIC_OUTPUT, registered, gc_misuse, validator_obj>>
    /\ UNCHANGED <<evalVars, lazyVars, onceVars, cliVars, newVars, compileVars>>

\* build_parsed_options: make_options_from_kwargs.
MakeOptions ==
    /\ RbAt({"options"})
    /\ LET parsed == make_options_from_kwargs(RbTop.kw)
           adds == {Address("CompilationRoots", RbTop.id, v) : v \in Range(parsed.roots)}
       IN /\ Register(adds)
          /\ rb_stack' = SetRbTop([RbTop EXCEPT
                 !.has_ruby_callbacks = parsed.has_ruby_callbacks,
                 !.roots = parsed.roots,
                 !.comp = adds,
                 !.callbacks = IF parsed.ok THEN RuntimeCallbacks(RbTop.kw) ELSE {},
                 !.pc = IF parsed.ok THEN "build" ELSE "finish",
                 !.result = IF parsed.ok THEN "" ELSE "error"])
    /\ UNCHANGED <<gvl, SUPPRESS_PANIC_OUTPUT, rb_calls, validator_obj>>
    /\ UNCHANGED <<evalVars, lazyVars, onceVars, cliVars, newVars, compileVars>>

\* build_validator: options.build(schema), with the GVL held.  A schema that
\* uses a custom keyword makes the factory instantiate the class; the
\* instance is added to compilation_roots and pushed to callback_roots.
BuildValidator ==
    /\ RbAt({"build"})
    /\ \E ok \in BOOLEAN, instantiated \in BOOLEAN :
        /\ instantiated => RbTop.kw.keywords = "classes"
        /\ LET adds == IF instantiated
                       THEN {Address("CompilationRoots", RbTop.id, "keyword_instance")}
                       ELSE {}
           IN /\ Register(adds)
              /\ rb_stack' = SetRbTop([RbTop EXCEPT
                     !.roots = IF instantiated THEN Append(@, "keyword_instance") ELSE @,
                     !.comp = @ \cup adds,
                     !.callbacks = IF ok /\ instantiated THEN @
                                   ELSE IF ok THEN @ \ {"keyword_instance"} ELSE {},
                     !.pc = IF ~ok \/ RbTop.fn = "validator_for" THEN "finish" ELSE "run",
                     !.result = IF ok THEN "" ELSE "error"])
    /\ UNCHANGED <<gvl, SUPPRESS_PANIC_OUTPUT, rb_calls, validator_obj>>
    /\ UNCHANGED <<evalVars, lazyVars, onceVars, cliVars, newVars, compileVars>>

\* The addresses CallbackRootGuard::new registers: one per entry of callback_roots.
CallbackRootGuard_new(frame) ==
    {Address("CallbackRootGuard", frame.id, v) : v \in Range(frame.roots)}

\* The branch on has_ruby_callbacks of is_valid, validate, each_error and
\* evaluate (module level and Validator): with callbacks, the roots guard of a
\* one-off call and catch_unwind_silent (SuppressPanicGuard::new); without,
\* without_gvl, except for each_error with a block, which keeps the GVL.
RunValidation ==
    /\ RbAt({"run"})
    /\ IF RbTop.has_ruby_callbacks
       THEN LET adds == IF RbTop.fn \in OneOff THEN CallbackRootGuard_new(RbTop) ELSE {}
            IN /\ Register(adds)
               /\ SUPPRESS_PANIC_OUTPUT' = TRUE
               /\ gvl' = gvl
               /\ rb_stack' = SetRbTop([RbTop EXCEPT !.guard = adds, !.silent = TRUE,
                                                 !.pc = "closure"])
       ELSE IF RbTop.block
       THEN /\ rb_stack' = SetRbTop([RbTop EXCEPT !.pc = "closure"])
            /\ UNCHANGED <<gvl, SUPPRESS_PANIC_OUTPUT, registered, gc_misuse>>
       ELSE /\ gvl' = "released"
            /\ rb_stack' = SetRbTop([RbTop EXCEPT !.nogvl = TRUE, !.pc = "closure"])
            /\ UNCHANGED <<SUPPRESS_PANIC_OUTPUT, registered, gc_misuse>>
    /\ UNCHANGED <<rb_calls, validator_obj>>
    /\ UNCHANGED <<evalVars, lazyVars, onceVars, cliVars, newVars, compileVars>>

\* The validator (or the registry build) calls one of its Ruby callbacks.
InvokeCallback ==
    /\ RbAt({"closure"})
    /\ RbTop.callbacks # {}
    /\ rb_stack' = SetRbTop([RbTop EXCEPT !.pc = "callback", !.invoked_gvl = gvl])
    /\ UNCHANGED <<gvl, SUPPRESS_PANIC_OUTPUT, registered, gc_misuse, rb_calls, validator_obj>>
    /\ UNCHANGED <<evalVars, lazyVars, onceVars, cliVars, newVars, compileVars>>

\* The callback returns, or it raises and RubyFormatChecker::check panics.
CallbackReturns ==
    /\ RbAt({"callback"})
    /\ \E raised \in BOOLEAN :
        /\ raised => "format" \in RbTop.callbacks
        /\ rb_stack' = SetRbTop([RbTop EXCEPT !.pc = IF raised THEN "panicking" ELSE "closure",
                                          !.invoked_gvl = ""])
    /\ UNCHANGED <<gvl, SUPPRESS_PANIC_OUTPUT, registered, gc_misuse, rb_calls, validator_obj>>
    /\ UNCHANGED <<evalVars, lazyVars, onceVars, cliVars, newVars, compileVars>>

\* Rust code of the validator panics (an expect that fails).
RustPanics ==
    /\ RbAt({"closure"})
    /\ RbTop.fn # "Registry.new"
    /\ rb_stack' = SetRbTop([RbTop EXCEPT !.pc = "panicking"])
    /\ UNCHANGED <<gvl, SUPPRESS_PANIC_OUTPUT, registered, gc_misuse, rb_calls, validator_obj>>
    /\ UNCHANGED <<evalVars, lazyVars, onceVars, cliVars, newVars, compileVars>>

\* The closure ends: catch_unwind_silent returns and its SuppressPanicGuard is
\* dropped (the flag is set to false), or without_gvl returns and the GVL is
\* held again.  each_error with a block then yields the error to the block,
\* or the iterator has ended.
CatchUnwind ==
    /\ RbAt({"closure", "panicking"})
    /\ \E more \in BOOLEAN, failed \in BOOLEAN :
        /\ more => RbTop.block /\ RbTop.pc = "closure"
        /\ failed => RbTop.fn = "Registry.new" /\ RbTop.pc = "closure"
        /\ SUPPRESS_PANIC_OUTPUT' = IF RbTop.silent THEN FALSE ELSE SUPPRESS_PANIC_OUTPUT
        /\ gvl' = IF RbTop.nogvl THEN "held" ELSE gvl
        /\ rb_stack' = SetRbTop([RbTop EXCEPT
               !.silent = FALSE,
               !.nogvl = FALSE,
               !.caught = IF ~RbTop.silent THEN ""
                          ELSE IF RbTop.pc = "closure" THEN "normal" ELSE "panicked",
               !.pc = IF more THEN "yield" ELSE "finish",
               !.result = IF more THEN ""
                          ELSE IF RbTop.pc = "panicking" THEN "panic"
                          ELSE IF failed THEN "error" ELSE "ok"])
    /\ UNCHANGED <<registered, gc_misuse, rb_calls, validator_obj>>
    /\ UNCHANGED <<evalVars, lazyVars, onceVars, cliVars, newVars, compileVars>>

\* ruby.yield_value: the block returns and the loop asks the iterator for the
\* next error (a new catch_unwind_silent when there are callbacks), or the
\* block raises and the call returns the error.
BlockReturns ==
    /\ RbAt({"yield"})
    /\ \E raised \in BOOLEAN :
        /\ SUPPRESS_PANIC_OUTPUT' =
               IF ~raised /\ RbTop.has_ruby_callbacks THEN TRUE ELSE SUPPRESS_PANIC_OUTPUT
        /\ rb_stack' = SetRbTop([RbTop EXCEPT
               !.silent = ~raised /\ RbTop.has_ruby_callbacks,
               !.caught = "",
               !.pc = IF raised THEN "finish" ELSE "closure",
               !.result = IF raised THEN "error" ELSE ""])
    /\ UNCHANGED <<gvl, registered, gc_misuse, rb_calls, validator_obj>>
    /\ UNCHANGED <<evalVars, lazyVars, onceVars, cliVars, newVars, compileVars>>

\* Registry::new_impl up to the build: the retriever is parsed, the resources
\* are converted, then RetrieverBuildRootGuard::new registers the retriever.
RegistryNew ==
    /\ RbAt({"registry"})
    /\ \E pairs_ok \in BOOLEAN :
        LET ok == RbTop.kw.retriever # "invalid" /\ pairs_ok
            adds == IF ok /\ RbTop.kw.retriever = "proc"
                    THEN {Address("RetrieverBuildRootGuard", RbTop.id, "retriever")}
                    ELSE {}
        IN /\ Register(adds)
           /\ rb_stack' = SetRbTop([RbTop EXCEPT
                  !.guard = adds,
                  !.callbacks = {a.value : a \in adds},
                  !.pc = IF ok THEN "closure" ELSE "finish",
                  !.result = IF ok THEN "" ELSE "error"])
    /\ UNCHANGED <<gvl, SUPPRESS_PANIC_OUTPUT, rb_calls, validator_obj>>
    /\ UNCHANGED <<evalVars, lazyVars, onceVars, cliVars, newVars, compileVars>>

\* What is dropped when the function returns: the guard of the call and, unless
\* the Validator returned by validator_for takes it, compilation_roots.
DroppedAtReturn_GuardOnly(frame) == frame.guard
DroppedAtReturn(frame) ==
    frame.guard \cup
        (IF frame.fn = "validator_for" /\ frame.result = "" THEN {} ELSE frame.comp)

\* The function returns to Ruby; its locals are dropped.
Return ==
    /\ RbAt({"finish"})
    /\ Unregister(DroppedAtReturn(RbTop))
    /\ validator_obj' =
           IF RbTop.fn = "validator_for" /\ RbTop.result = ""
           THEN [exists |-> TRUE, has_ruby_callbacks |-> RbTop.has_ruby_callbacks,
                 callbacks |-> RbTop.callbacks, comp |-> RbTop.comp]
           ELSE validator_obj
    /\ rb_stack' = SubSeq(rb_stack, 1, Len(rb_stack) - 1)
    /\ UNCHANGED <<gvl, SUPPRESS_PANIC_OUTPUT, rb_calls>>
    /\ UNCHANGED <<evalVars, lazyVars, onceVars, cliVars, newVars, compileVars>>

\* Ruby's GC frees the Validator once no call uses it: its compilation roots
\* are dropped.
Free ==
    /\ validator_obj.exists
    /\ \A i \in 1..Len(rb_stack) : rb_stack[i].fn \notin Methods
    /\ Unregister(validator_obj.comp)
    /\ validator_obj' = NoValidator
    /\ UNCHANGED <<rb_stack, gvl, SUPPRESS_PANIC_OUTPUT, rb_calls>>
    /\ UNCHANGED <<evalVars, lazyVars, onceVars, cliVars, newVars, compileVars>>

NextRuby ==
    \/ RubyCall \/ MakeOptions \/ BuildValidator \/ RunValidation \/ InvokeCallback
    \/ CallbackReturns \/ RustPanics \/ CatchUnwind \/ BlockReturns
    \/ RegistryNew \/ Return \/ Free

SpecRuby == InitRuby /\ [][NextRuby]_vars

\* ------------------------------------------------ claims: the Ruby binding
\* C28: the GVL is released around is_valid, validate, iter_errors and
\* evaluate only for a validator built with no Ruby format checker and no Ruby
\* custom keyword, so that no Ruby callback is ever invoked while the GVL is
\* released, whatever the options (formats, keywords, retriever, registry).
C28_NoCallbackWithoutGvl ==
    \A i \in 1..Len(rb_stack) :
        /\ rb_stack[i].nogvl => rb_stack[i].callbacks = {}
        /\ rb_stack[i].pc = "callback" => rb_stack[i].invoked_gvl = "held"

\* A validator with a custom keyword and no format checker is running one of
\* its callbacks, on a schema built with a retriever and a registry.
C28_Witness ==
    \E i \in 1..Len(rb_stack) :
        /\ rb_stack[i].pc = "callback"
        /\ rb_stack[i].callbacks = {"keyword_instance"}
        /\ rb_stack[i].kw.formats = "empty"
        /\ rb_stack[i].kw.registry = "with_retriever"
        /\ rb_stack[i].invoked_gvl = "held"

\* C29: SUPPRESS_PANIC_OUTPUT is true during the whole run of a closure passed
\* to catch_unwind_silent and false again once catch_unwind_silent has
\* returned, normally or by a panic, also for the outer call when calls of
\* catch_unwind_silent are nested on one thread.
C29_SuppressedDuringClosure ==
    /\ \A i \in 1..Len(rb_stack) :
          (rb_stack[i].silent /\ rb_stack[i].pc \in {"closure", "callback", "panicking"})
              => SUPPRESS_PANIC_OUTPUT
    /\ (rb_stack # <<>> /\ RbTop.caught # "" /\ RbTop.pc \in {"finish", "yield"})
          => ~SUPPRESS_PANIC_OUTPUT
    /\ rb_stack = <<>> => ~SUPPRESS_PANIC_OUTPUT

\* The same for a call during which the binding has not been called again.
C29_SuppressedDuringClosure_NotNested ==
    (rb_stack = <<>> \/ (Len(rb_stack) = 1 /\ rb_stack[1].id = rb_calls))
      => C29_SuppressedDuringClosure

\* C30: every address registered by CallbackRootGuard, CompilationRoots or
\* RetrieverBuildRootGuard is unregistered exactly once, when its guard is
\* dropped, never while the callback can still be invoked; after any sequence
\* of one-off calls, ended by an error or a caught panic included, no
\* registration made by them remains.
C30_RootsBalanced ==
    /\ ~gc_misuse
    /\ registered =
          validator_obj.comp \cup
              UNION {rb_stack[i].guard \cup rb_stack[i].comp : i \in 1..Len(rb_stack)}
    /\ rb_stack = <<>> => registered = validator_obj.comp
    /\ \A i \in 1..Len(rb_stack) :
          rb_stack[i].pc \in {"closure", "callback", "panicking", "yield"} =>
              \A c \in rb_stack[i].callbacks :
                  \E a \in registered :
                      /\ a.value = c
                      /\ a \in rb_stack[i].guard \cup rb_stack[i].comp \cup validator_obj.comp

\* A one-off call with a format checker and a retriever has caught a panic
\* and is about to return; its roots are still registered.
C30_Witness ==
    /\ Len(rb_stack) = 1
    /\ RbTop.fn \in OneOff
    /\ RbTop.pc = "finish"
    /\ RbTop.caught = "panicked"
    /\ RbTop.kw.retriever = "proc"
    /\ Address("CallbackRootGuard", RbTop.id, "format") \in registered
    /\ Address("CompilationRoots", RbTop.id, "retriever") \in registered
    /\ rb_calls = MaxRubyCalls

====
